---- MODULE Spec2Model ----
(***************************************************************************)
(* Header classification and threshold diagnostics of the HVAC analyzer    *)
(* (streamlit_app.py).  Strings are sequences of one-character strings so  *)
(* that strip(), lower() and the `in` substring test are computed, not     *)
(* assumed.  Column indices are 0-based as in Python.                      *)
(***************************************************************************)
EXTENDS Integers, Sequences, FiniteSets, TLC

VARIABLES headers, df, mapping, timeline, warned, issues, comfort, actions, seen, pc

vars == <<headers, df, mapping, timeline, warned, issues, comfort, actions, seen, pc>>

(***************************************************************************)
(* Bounds of the model.                                                    *)
(***************************************************************************)
MaxHeaders == 3
MaxScenarioLen == 4
MaxPureLen == 2
MaxRows == 2

(***************************************************************************)
(* Python string helpers.                                                  *)
(***************************************************************************)
UpperLetters == <<"A","B","C","D","E","F","G","H","I","J","K","L","M","N","O","P","Q","R","S","T","U","V","W","X","Y","Z">>
LowerLetters == <<"a","b","c","d","e","f","g","h","i","j","k","l","m","n","o","p","q","r","s","t","u","v","w","x","y","z">>
Whitespace == {" ", "\t"}

\* str.lower() on one character
LowerChar(c) ==
    IF \E k \in 1..Len(UpperLetters) : UpperLetters[k] = c
    THEN LowerLetters[CHOOSE k \in 1..Len(UpperLetters) : UpperLetters[k] = c]
    ELSE c

\* str.lower()
Lower(s) == [k \in 1..Len(s) |-> LowerChar(s[k])]

\* str.strip(): drops leading and trailing whitespace
Strip(s) ==
    LET keep == {k \in 1..Len(s) : s[k] \notin Whitespace}
    IN  IF keep = {} THEN << >>
        ELSE LET lo == CHOOSE k \in keep : \A j \in keep : k <= j
                 hi == CHOOSE k \in keep : \A j \in keep : j <= k
             IN  SubSeq(s, lo, hi)

\* the Python test `kw in s` on strings
Contains(s, kw) ==
    \E k \in 1..(Len(s) - Len(kw) + 1) : SubSeq(s, k, k + Len(kw) - 1) = kw

\* any(keyword in s for keyword in kws)
AnyIn(kws, s) == \E kw \in kws : Contains(s, kw)

(***************************************************************************)
(* parse_headers_enhanced: the keyword groups, in the order of the chain.  *)
(***************************************************************************)
None == -1

ListRoles == {"suctionPressures", "dischargePressures", "suctionTemps",
              "supplyAirTemps", "dischargeTemps", "outdoorAirTemps",
              "coolingSetpoints", "heatingSetpoints", "indoorRH", "outdoorRH",
              "indoorTemps"}

SingleRoles == {"date", "time", "datetime"}

\* the dict literal built at the start of every call
EmptyMapping ==
    [suctionPressures |-> << >>, dischargePressures |-> << >>,
     suctionTemps |-> << >>, supplyAirTemps |-> << >>,
     dischargeTemps |-> << >>, outdoorAirTemps |-> << >>,
     coolingSetpoints |-> << >>, heatingSetpoints |-> << >>,
     indoorRH |-> << >>, outdoorRH |-> << >>, indoorTemps |-> << >>,
     date |-> None, time |-> None, datetime |-> None]

\* a mapping object that outlives the call (module-level dict)
StaleMapping == mapping

\* `mapping = {...}` is a local of the call
FreshMapping == EmptyMapping

IsDatetime(hl) == AnyIn({<<"t","i","m","e","s","t","a","m","p">>, <<"d","a","t","e","t","i","m","e">>}, hl)

IsDate(hl) == AnyIn({<<"d","a","t","e">>}, hl)

IsTime(hl) == AnyIn({<<"t","i","m","e">>}, hl)

IsRH(hl) == AnyIn({<<"r","e","l"," ","h","u","m">>, <<"r","e","l","."," ","h","u","m">>, <<"r","e","l","a","t","i","v","e"," ","h","u","m","i","d","i","t","y">>, <<"r","h">>}, hl)

IsOutdoorRH(hl) == AnyIn({<<"o","a"," ","r","h">>, <<"o","u","t","d","o","o","r">>, <<"o","u","t","s","i","d","e">>, <<"o","u","t","s","i","d","e"," ","a","i","r"," ","r","h">>}, hl)

IsIndoorTemp(hl) ==
    AnyIn({<<"i","n","d","o","o","r"," ","t","e","m","p">>, <<"i","n","d","o","o","r"," ","t","e","m","p","e","r","a","t","u","r","e">>, <<"r","o","o","m"," ","t","e","m","p">>, <<"s","p","a","c","e","t","e","m","p">>,
           <<"s","p","a","c","e"," ","t","e","m","p">>, <<"s","p","a","c","e","-","t","e","m","p">>}, hl)

IsSuctionTemp(hl) ==
    AnyIn({<<"1","s","u","c","t","m","p","1">>, <<"s","u","c","t","m","p">>, <<"s","u","c"," ","t","m","p">>, <<"s","u","c","t","i","o","n"," ","t","m","p">>, <<"s","u","c","t","i","o","n","_","t","m","p">>,
           <<"s","u","c","t","i","o","n"," ","t","e","m","p">>, <<"s","u","c","t","i","o","n","-","t","e","m","p">>}, hl)

IsSupplyAirTemp(hl) ==
    AnyIn({<<"s","a","t">>, <<"s","u","p","p","l","y"," ","a","i","r">>, <<"s","u","p","p","l","y","_","a","i","r">>, <<"d","i","s","c","h","a","r","g","e"," ","t","e","m","p">>}, hl)

IsDischargeTemp(hl) ==
    AnyIn({<<"d","i","s","c","h","g">>, <<"d","i","s"," ","c","h","g">>, <<"d","i","s","c","h","a","r","g","e">>}, hl) /\ Contains(hl, <<"t","e","m","p">>)

IsOutdoorAirTemp(hl) ==
    /\ AnyIn({<<"o","a","t">>, <<"o","u","t","d","o","o","r">>, <<"o","u","t","s","i","d","e">>}, hl)
    /\ (Contains(hl, <<"t","e","m","p">>) \/ Contains(hl, <<"a","i","r">>))

\* only the compact tags, without the bare "suction" keyword and the conjunction
IsSuctionPressure_TagsOnly(hl) ==
    AnyIn({<<"1","s","u","c","p","r","1">>, <<"s","u","c","p","r">>, <<"s","u","c"," ","p","r">>, <<"s","u","c","t","i","o","n"," ","p","r">>, <<"s","u","c","t","i","o","n","_","p","r">>}, hl)

IsSuctionPressure(hl) ==
    \/ AnyIn({<<"1","s","u","c","p","r","1">>, <<"s","u","c","t","i","o","n">>, <<"s","u","c","p","r">>, <<"s","u","c"," ","p","r">>, <<"s","u","c","t","i","o","n"," ","p","r">>,
              <<"s","u","c","t","i","o","n","_","p","r">>}, hl)
    \/ /\ (Contains(hl, <<"s","u","c">>) \/ Contains(hl, <<"s","u","c","t","i","o","n">>))
       /\ (Contains(hl, <<"p","r">>) \/ Contains(hl, <<"p","r","e","s","s","u","r","e">>))

\* the explicit "discharge pr"/"head pr" forms only
IsDischargePressure_Explicit(hl) ==
    AnyIn({<<"d","i","s","c","h","a","r","g","e"," ","p","r">>, <<"h","e","a","d"," ","p","r">>, <<"h","e","a","d","p","r">>}, hl)

IsDischargePressure(hl) ==
    \/ AnyIn({<<"1","d","i","s","c","h","g","1">>, <<"d","i","s","c","h","g">>, <<"d","i","s"," ","c","h","g">>, <<"d","i","s","c","h","a","r","g","e"," ","p","r">>, <<"h","e","a","d"," ","p","r">>,
              <<"h","e","a","d","p","r">>, <<"1","c","o","n","d","1">>, <<"1","h","e","a","d","p","r","1">>}, hl)
    \/ /\ (Contains(hl, <<"d","i","s","c","h","a","r","g","e">>) \/ Contains(hl, <<"h","e","a","d">>) \/ Contains(hl, <<"c","o","n","d">>))
       /\ (Contains(hl, <<"p","r">>) \/ Contains(hl, <<"p","r","e","s","s","u","r","e">>))

IsCoolingSetpoint(hl) ==
    /\ AnyIn({<<"c","s","p">>, <<"c","o","o","l">>, <<"c","o","o","l","i","n","g">>}, hl)
    /\ (Contains(hl, <<"s","p">>) \/ Contains(hl, <<"s","e","t","p","o","i","n","t">>))

IsHeatingSetpoint(hl) ==
    /\ AnyIn({<<"h","s","p">>, <<"h","e","a","t">>, <<"h","e","a","t","i","n","g">>}, hl)
    /\ (Contains(hl, <<"s","p">>) \/ Contains(hl, <<"s","e","t","p","o","i","n","t">>))

(***************************************************************************)
(* The header strings the model draws header lists from.                   *)
(***************************************************************************)
ScenarioAHeaders == {<<"D","a","t","e">>, <<"T","i","m","e">>, <<"S","u","c","P","r","1">>, <<"D","i","s","c","h","g","1">>}

PureHeaders == {<<"D","a","t","e">>, <<"T","i","m","e","s","t","a","m","p">>, <<"S","u","c","P","r","1">>, <<"I","n","d","o","o","r"," ","R","H">>}

HeaderPool ==
    ScenarioAHeaders \cup PureHeaders \cup
    {<<"D","a","t","e","T","i","m","e">>, <<"D","a","t","e"," ","T","i","m","e">>, <<" "," ","S","u","c","t","i","o","n"," ","P","r","e","s","s","u","r","e"," ">>, <<"S","u","c","t","i","o","n"," ","L","i","n","e"," ","P","r","e","s","s","u","r","e">>,
     <<"S","u","c","t","i","o","n"," ","T","e","m","p","/","P","r","e","s","s","u","r","e">>, <<"H","e","a","d"," ","P","r","e","s","s","u","r","e">>, <<"S","u","c","t","i","o","n"," ","T","e","m","p">>,
     <<"D","i","s","c","h","a","r","g","e"," ","T","e","m","p">>, <<"O","u","t","d","o","o","r"," ","A","i","r"," ","T","e","m","p">>, <<"S","p","a","c","e"," ","T","e","m","p">>, <<"O","A"," ","R","H">>,
     <<"R","u","n"," ","T","i","m","e"," ","R","H">>, <<"C","o","o","l"," ","S","P">>, <<"H","e","a","t"," ","S","P">>, <<"s","o","u","r","c","e","_","f","i","l","e">>}

\* further headers of the datasets handed to the rules
RuleHeaders ==
    {<<"I","n","d","o","o","r"," ","T","e","m","p">>, <<"1","S","p","r","H","t","S","P">>, <<" ","1","S","p","r","H","t","S","P">>, <<"1","s","p","r","h","t","s","p">>, <<"O","A","_","R","H">>, <<"O","A"," ","R","e","l"," ","H","u","m">>,
     <<"O","u","t","d","o","o","r"," ","R","H">>}

KnownHeaders == HeaderPool \cup RuleHeaders

\* h_clean = str(h).strip(); header_lower = h_clean.lower()
header_lower == [h \in KnownHeaders |-> Lower(Strip(h))]

\* the value of every group's keyword test on every header of the pool
kw ==
    [h \in KnownHeaders |->
        LET hl == header_lower[h]
        IN  [datetime |-> IsDatetime(hl), date |-> IsDate(hl), time |-> IsTime(hl),
             rh |-> IsRH(hl), outdoorRH |-> IsOutdoorRH(hl),
             indoorTemps |-> IsIndoorTemp(hl), suctionTemps |-> IsSuctionTemp(hl),
             supplyAirTemps |-> IsSupplyAirTemp(hl),
             dischargeTemps |-> IsDischargeTemp(hl),
             outdoorAirTemps |-> IsOutdoorAirTemp(hl),
             suctionPressures |-> IsSuctionPressure(hl),
             dischargePressures |-> IsDischargePressure(hl),
             coolingSetpoints |-> IsCoolingSetpoint(hl),
             heatingSetpoints |-> IsHeatingSetpoint(hl)]]

\* the role the if/elif chain selects for a header, given the mapping so far
RoleOf(m, k) ==
    IF k.datetime THEN "datetime"
    ELSE IF k.date /\ m.date = None THEN "date"
    ELSE IF k.time /\ m.time = None THEN "time"
    ELSE IF k.rh THEN (IF k.outdoorRH THEN "outdoorRH" ELSE "indoorRH")
    ELSE IF k.indoorTemps THEN "indoorTemps"
    ELSE IF k.suctionTemps THEN "suctionTemps"
    ELSE IF k.supplyAirTemps THEN "supplyAirTemps"
    ELSE IF k.dischargeTemps THEN "dischargeTemps"
    ELSE IF k.outdoorAirTemps THEN "outdoorAirTemps"
    ELSE IF k.suctionPressures THEN "suctionPressures"
    ELSE IF k.dischargePressures THEN "dischargePressures"
    ELSE IF k.coolingSetpoints THEN "coolingSetpoints"
    ELSE IF k.heatingSetpoints THEN "heatingSetpoints"
    ELSE "none"

\* a final else branch that files the column under some list
Unmatched_Default(m, i) == [m EXCEPT !.indoorTemps = Append(@, i)]

\* no branch matched: the mapping is left as it is
Unmatched(m, i) == m

\* mapping[role] = i   or   mapping[role].append(i)
Assign(m, role, i) ==
    IF role = "none" THEN Unmatched(m, i)
    ELSE IF role \in SingleRoles THEN [m EXCEPT ![role] = i]
    ELSE [m EXCEPT ![role] = Append(@, i)]

\* the pressure detection written as a chain of its own (`if`, not `elif`)
ClassifyHeader_PressureIf(m, h, i) ==
    LET role == RoleOf(m, kw[h])
        m1 == Assign(m, role, i)
    IN  IF kw[h].suctionPressures /\ role # "suctionPressures"
        THEN Assign(m1, "suctionPressures", i)
        ELSE m1

\* one iteration of `for i, h in enumerate(headers)`
ClassifyHeader(m, h, i) == Assign(m, RoleOf(m, kw[h]), i)

RECURSIVE ParseLoop(_, _, _)
ParseLoop(m, hs, n) ==
    IF n > Len(hs) THEN m
    ELSE ParseLoop(ClassifyHeader(m, hs[n], n - 1), hs, n + 1)

parse_headers_enhanced(hs) == ParseLoop(FreshMapping, hs, 1)

(***************************************************************************)
(* Cells, numeric coercion and series statistics.  A cell is a number, a   *)
(* missing value (NaN) or a string; statistics are exact rationals         *)
(* [num, den], compared by cross-multiplication.                           *)
(***************************************************************************)
Num(x) == [t |-> "num", v |-> x, s |-> << >>]

NaN == [t |-> "nan", v |-> 0, s |-> << >>]

Str(str) == [t |-> "str", v |-> 0, s |-> str]

Digits == <<"0","1","2","3","4","5","6","7","8","9">>

IsDigit(c) == \E k \in 1..Len(Digits) : Digits[k] = c

DigitValue(c) == (CHOOSE k \in 1..Len(Digits) : Digits[k] = c) - 1

RECURSIVE DecimalValue(_)
DecimalValue(ds) ==
    IF ds = << >> THEN 0
    ELSE 10 * DecimalValue(SubSeq(ds, 1, Len(ds) - 1)) + DigitValue(ds[Len(ds)])

\* the number a string cell parses to, or NaN (errors='coerce')
ParseString(str) ==
    LET neg == Len(str) > 0 /\ str[1] = "-"
        ds == IF neg THEN Tail(str) ELSE str
    IN  IF Len(ds) > 0 /\ \A k \in 1..Len(ds) : IsDigit(ds[k])
        THEN Num(IF neg THEN 0 - DecimalValue(ds) ELSE DecimalValue(ds))
        ELSE NaN

\* pd.to_numeric(column, errors='coerce'): one entry per row
to_numeric(col) ==
    [k \in 1..Len(col) |-> IF col[k].t = "str" THEN ParseString(col[k].s) ELSE col[k]]

\* fillna(0): a missing entry replaced by the number 0
dropna_FillZero(col) ==
    [k \in 1..Len(col) |-> IF col[k].t = "nan" THEN 0 ELSE col[k].v]

\* Series.dropna(): the entries that are numbers, in row order
dropna(col) ==
    LET kept == SelectSeq(col, LAMBDA c : c.t # "nan")
    IN  [k \in 1..Len(kept) |-> kept[k].v]

\* pd.to_numeric(df.iloc[:, idx], errors='coerce').dropna()
SeriesOf(d, idx) == dropna(to_numeric(d[idx + 1]))

RECURSIVE Sum(_)
Sum(xs) == IF xs = << >> THEN 0 ELSE Head(xs) + Sum(Tail(xs))

SumSq(xs) == Sum([k \in 1..Len(xs) |-> xs[k] * xs[k]])

\* Series.mean() of a non-empty series
Mean(xs) == [num |-> Sum(xs), den |-> Len(xs)]

\* the square of Series.std() (ddof = 1); den = 0 stands for NaN
Variance(xs) ==
    [num |-> Len(xs) * SumSq(xs) - Sum(xs) * Sum(xs),
     den |-> Len(xs) * (Len(xs) - 1)]

Max(xs) == CHOOSE x \in {xs[k] : k \in 1..Len(xs)} : \A k \in 1..Len(xs) : xs[k] <= x

Min(xs) == CHOOSE x \in {xs[k] : k \in 1..Len(xs)} : \A k \in 1..Len(xs) : x <= xs[k]

\* q >= t in place of q > t
GT_OrEqual(q, t) == q.num >= t * q.den

\* q > t  and  q < t  for a rational q with positive denominator
GT(q, t) == q.num > t * q.den

\* q <= t in place of q < t
LT_OrEqual(q, t) == q.num <= t * q.den

LT(q, t) == q.num < t * q.den

\* std > t, false when the deviation is NaN (a single sample)
StdGT(xs, t) == Len(xs) >= 2 /\ Variance(xs).num > t * t * Variance(xs).den

\* (series >= t).sum()
CountAbove_Inclusive(xs, t) == Cardinality({k \in 1..Len(xs) : xs[k] >= t})

\* (series > t).sum()
CountAbove(xs, t) == Cardinality({k \in 1..Len(xs) : xs[k] > t})

\* (series <= t).sum()
CountBelow_Inclusive(xs, t) == Cardinality({k \in 1..Len(xs) : xs[k] <= t})

\* (series < t).sum()
CountBelow(xs, t) == Cardinality({k \in 1..Len(xs) : xs[k] < t})

\* (count / len(series)) * 100
Percent(count, xs) == [num |-> 100 * count, den |-> Len(xs)]

\* the concatenation of a sequence of lists (results.append / issues.append
\* inside a for loop, in loop order)
RECURSIVE Concat(_)
Concat(ss) == IF ss = << >> THEN << >> ELSE Head(ss) \o Concat(Tail(ss))

(***************************************************************************)
(* create_datetime_column.  A timestamp is a record of its calendar fields *)
(* to the minute; NaT is the missing timestamp of errors='coerce'.         *)
(***************************************************************************)
Timestamp(y, mo, d, h, mi) ==
    [year |-> y, month |-> mo, day |-> d, hour |-> h, minute |-> mi]

NaT == Timestamp(0, 0, 0, 0, 0)

\* the date of the run, which a time without a date is completed with
Today == <<2024, 6, 15>>

\* pd.date_range(start='2024-01-01', periods=n, freq='H'), within January
date_range(n) ==
    [k \in 1..n |-> Timestamp(2024, 1, 1 + ((k - 1) \div 24), (k - 1) % 24, 0)]

RECURSIVE DigitsOf(_)
DigitsOf(n) ==
    IF n < 10 THEN <<Digits[n + 1]>> ELSE DigitsOf(n \div 10) \o <<Digits[(n % 10) + 1]>>

\* Series.astype(str) on one entry of an object column
astype_str(c) ==
    IF c.t = "str" THEN c.s
    ELSE IF c.t = "nan" THEN <<"n","a","n">>
    ELSE IF c.v < 0 THEN <<"-">> \o DigitsOf(0 - c.v) ELSE DigitsOf(c.v)

\* str.isdigit()
isdigit(s) == Len(s) > 0 /\ \A k \in 1..Len(s) : IsDigit(s[k])

\* str.split(sep) for a one-character separator
RECURSIVE split(_, _)
split(s, sep) ==
    LET cuts == {k \in 1..Len(s) : s[k] = sep}
    IN  IF cuts = {} THEN <<s>>
        ELSE LET k == CHOOSE c \in cuts : \A j \in cuts : c <= j
             IN  <<SubSeq(s, 1, k - 1)>> \o split(SubSeq(s, k + 1, Len(s)), sep)

\* str.zfill(2)
zfill2(s) == IF Len(s) < 2 THEN <<"0">> \o s ELSE s

\* the keys of month_map in the order of their values '01' .. '12'
month_map ==
    <<<<"j","a","n">>, <<"f","e","b">>, <<"m","a","r">>, <<"a","p","r">>, <<"m","a","y">>, <<"j","u","n">>,
      <<"j","u","l">>, <<"a","u","g">>, <<"s","e","p">>, <<"o","c","t">>, <<"n","o","v">>, <<"d","e","c">>>>

\* the value None of convert_date, and of a string sum with a None operand
NoString == <<"None">>

\* '31-May' -> '2024-05-31'; every other string is returned as it is
convert_date(date_str) ==
    LET parts == split(date_str, "-")
        day == parts[1]
        month == parts[2]
        key == SubSeq(Lower(month), 1, IF Len(month) < 3 THEN Len(month) ELSE 3)
        known == {k \in 1..Len(month_map) : month_map[k] = key}
        month_num == IF known = {} THEN month
                     ELSE zfill2(DigitsOf(CHOOSE k \in known : TRUE))
    IN  IF date_str = <<"n","a","n">> THEN NoString
        ELSE IF Contains(date_str, <<"-">>) /\ Len(parts) = 2 /\ isdigit(parts[1])
        THEN <<"2","0","2","4","-">> \o month_num \o <<"-">> \o zfill2(day)
        ELSE date_str

\* date_col + ' ' + time_col on one row: a None operand gives a missing entry
JoinDateTime(date_str, time_str) ==
    IF date_str = NoString THEN NoString ELSE date_str \o <<" ">> \o time_str

IsLeap(y) == y % 4 = 0 /\ (y % 100 # 0 \/ y % 400 = 0)

DaysIn(y, mo) ==
    IF mo = 2 THEN (IF IsLeap(y) THEN 29 ELSE 28)
    ELSE IF mo \in {4, 6, 9, 11} THEN 30 ELSE 31

\* 'YYYY-MM-DD' naming a day of the calendar
IsDateString(s) ==
    /\ Len(s) = 10 /\ s[5] = "-" /\ s[8] = "-"
    /\ isdigit(SubSeq(s, 1, 4)) /\ isdigit(SubSeq(s, 6, 7)) /\ isdigit(SubSeq(s, 9, 10))
    /\ DecimalValue(SubSeq(s, 6, 7)) \in 1..12
    /\ DecimalValue(SubSeq(s, 9, 10)) \in
          1..DaysIn(DecimalValue(SubSeq(s, 1, 4)), DecimalValue(SubSeq(s, 6, 7)))

\* 'HH:MM'
IsTimeString(s) ==
    /\ Len(s) = 5 /\ s[3] = ":"
    /\ isdigit(SubSeq(s, 1, 2)) /\ isdigit(SubSeq(s, 4, 5))
    /\ DecimalValue(SubSeq(s, 1, 2)) < 24
    /\ DecimalValue(SubSeq(s, 4, 5)) < 60

\* pd.to_datetime(..., errors='coerce') on one string, for the formats
\* 'YYYY-MM-DD', 'YYYY-MM-DD HH:MM' and 'HH:MM'; any other text and a
\* missing entry give NaT
ParseDateTime(s) ==
    IF IsDateString(s)
    THEN Timestamp(DecimalValue(SubSeq(s, 1, 4)), DecimalValue(SubSeq(s, 6, 7)),
                   DecimalValue(SubSeq(s, 9, 10)), 0, 0)
    ELSE IF /\ Len(s) = 16 /\ s[11] = " "
            /\ IsDateString(SubSeq(s, 1, 10)) /\ IsTimeString(SubSeq(s, 12, 16))
    THEN Timestamp(DecimalValue(SubSeq(s, 1, 4)), DecimalValue(SubSeq(s, 6, 7)),
                   DecimalValue(SubSeq(s, 9, 10)),
                   DecimalValue(SubSeq(s, 12, 13)), DecimalValue(SubSeq(s, 15, 16)))
    ELSE IF IsTimeString(s)
    THEN Timestamp(Today[1], Today[2], Today[3],
                   DecimalValue(SubSeq(s, 1, 2)), DecimalValue(SubSeq(s, 4, 5)))
    ELSE NaT

\* pd.to_datetime on one entry of a raw column: text is parsed, a missing
\* entry is NaT, a small number counts nanoseconds from 1970-01-01
ParseCell(c) ==
    IF c.t = "str" THEN ParseDateTime(c.s)
    ELSE IF c.t = "nan" THEN NaT
    ELSE Timestamp(1970, 1, 1, 0, 0)

\* the parsed entries without the rows that came out NaT
to_datetime_DropNaT(strs) ==
    SelectSeq([r \in 1..Len(strs) |-> ParseDateTime(strs[r])], LAMBDA t : t # NaT)

\* pd.to_datetime(series_of_strings, errors='coerce'): one entry per row
to_datetime(strs) == [r \in 1..Len(strs) |-> ParseDateTime(strs[r])]

\* df.iloc[:, idx].astype(str).str.strip()
StrippedColumn(d, idx) == [r \in 1..Len(d[idx + 1]) |-> Strip(astype_str(d[idx + 1][r]))]

\* len(df)
RowsOf(d) == IF d = << >> THEN 0 ELSE Len(d[1])

Parsed(ts) == [parsed |-> ts, warned |-> FALSE]

\* except Exception: st.warning(...) and the sequential index
Fallback(d) == [parsed |-> date_range(RowsOf(d)), warned |-> TRUE]

\* a datetime column that gives up as soon as one entry does not parse
DatetimeBranch_AllOrNothing(d, m) ==
    IF \E r \in 1..RowsOf(d) : ParseCell(d[m.datetime + 1][r]) = NaT
    THEN Fallback(d)
    ELSE Parsed([r \in 1..RowsOf(d) |-> ParseCell(d[m.datetime + 1][r])])

\* the branch of a datetime column
DatetimeBranch(d, m) ==
    Parsed([r \in 1..RowsOf(d) |-> ParseCell(d[m.datetime + 1][r])])

\* the branch of a date and a time column
DateTimeBranch(d, m) ==
    LET date_col == StrippedColumn(d, m.date)
        time_col == StrippedColumn(d, m.time)
        datetime_str ==
            [r \in 1..RowsOf(d) |-> JoinDateTime(convert_date(date_col[r]), time_col[r])]
    IN  Parsed(to_datetime(datetime_str))

\* the date-only branch with convert_date in scope
DateBranch_ConvertInScope(d, m) ==
    LET date_col == StrippedColumn(d, m.date)
    IN  Parsed(to_datetime([r \in 1..RowsOf(d) |-> convert_date(date_col[r])]))

\* the branch of a date column alone: convert_date is a local name bound only
\* in the branch above, so the first call of the lambda raises NameError, which
\* the except clause turns into the sequential index; apply() on zero rows
\* calls nothing
DateBranch(d, m) ==
    IF RowsOf(d) > 0 THEN Fallback(d) ELSE Parsed(<< >>)

\* the parsed_datetime column, and whether the warning was shown
create_datetime_column(d, m) ==
    IF m.datetime # None THEN DatetimeBranch(d, m)
    ELSE IF m.date # None /\ m.time # None THEN DateTimeBranch(d, m)
    ELSE IF m.date # None THEN DateBranch(d, m)
    ELSE Parsed(date_range(RowsOf(d)))

(***************************************************************************)

(* check_comfort_conditions                                                *)
(***************************************************************************)
HumidityComfortLimit == 60
ComfortTempLow == 70
ComfortTempHigh == 75

Sentinel == <<"1","S","p","r","H","t","S","P">>

\* the excluded column recognised by its cleaned, lower-cased name
IsSentinel_Cleaned(h) == Lower(Strip(h)) = Lower(Sentinel)

\* headers[idx] == '1SprHtSP'
IsSentinel(h) == h = Sentinel

HumidityComfort(d, hs, idx) ==
    LET humidity_data == SeriesOf(d, idx)
        above_60 == CountAbove(humidity_data, HumidityComfortLimit)
        percent_over == Percent(above_60, humidity_data)
    IN  IF IsSentinel(hs[idx + 1]) THEN << >>
        ELSE IF Len(humidity_data) > 0
        THEN <<[type |-> "Indoor Relative Humidity", column |-> hs[idx + 1],
                average |-> Mean(humidity_data), percent_over |-> percent_over,
                compliant |-> (percent_over.num = 0)]>>
        ELSE << >>

\* the indoor-temperature result of a column without the `len(temp_data) > 0`
\* test
TemperatureComfort_NoGuard(d, hs, idx) ==
    LET temp_data == SeriesOf(d, idx)
        percent_outside ==
            Percent(CountBelow(temp_data, ComfortTempLow)
                    + CountAbove(temp_data, ComfortTempHigh), temp_data)
    IN  <<[type |-> "Indoor Temperature", column |-> hs[idx + 1],
           average |-> Mean(temp_data), percent_outside |-> percent_outside,
           compliant |-> (percent_outside.num = 0)]>>

TemperatureComfort(d, hs, idx) ==
    LET temp_data == SeriesOf(d, idx)
        below_70 == CountBelow(temp_data, ComfortTempLow)
        above_75 == CountAbove(temp_data, ComfortTempHigh)
        percent_outside == Percent(below_70 + above_75, temp_data)
    IN  IF Len(temp_data) > 0
        THEN <<[type |-> "Indoor Temperature", column |-> hs[idx + 1],
                average |-> Mean(temp_data), percent_outside |-> percent_outside,
                compliant |-> (percent_outside.num = 0)]>>
        ELSE << >>

check_comfort_conditions(d, hs, m) ==
    Concat([k \in 1..Len(m.indoorRH) |-> HumidityComfort(d, hs, m.indoorRH[k])])
    \o Concat([k \in 1..Len(m.indoorTemps) |-> TemperatureComfort(d, hs, m.indoorTemps[k])])

(***************************************************************************)
(* analyze_hvac_data_enhanced: the rule blocks in declaration order.       *)
(***************************************************************************)
HighSuctionPressure == 200
LowSuctionPressure == 50
SuctionPressureStdLimit == 15
HighIndoorHumidity == 60
LowIndoorHumidity == 30
HumidityStdLimit == 10
MigrationDrop == 10
HighDischargePressure == 400
LowDischargePressure == 150
DischargePressureStdLimit == 20
HighSuctionTemp == 65
LowSuctionTemp == 35
SuctionTempStdLimit == 8
HighSupplyTemp == 120
LowSupplyTemp == 50
SupplyTempSpread == 25
ExtremeOutdoorMax == 95
FreezingOutdoorMin == 32
ShortCyclingMinSamples == 10
DeclineMinSamples == 50
PressureDecline == 15
IcingTemp == 32

LowTempDifferential == 15
HighTempDifferential == 25
LowSubcooling == 5
HighSubcooling == 20
OvershootLimit == 3
UndershootLimit == 2
PressureDiffStdLimit == 30
HuntingMinSamples == 20
LowCompressionRatio == 2
\* 4.5
HighCompressionRatio == [num |-> 9, den |-> 2]

NoColumn == << >>

\* a finding appended without its suggestions
Finding_NoSuggestions(sev, msg, col, val, expl, sugg, kind) ==
    [severity |-> sev, message |-> msg, column |-> col, value |-> val,
     explanation |-> expl, suggestions |-> << >>, issue_type |-> kind]

Finding(sev, msg, col, val, expl, sugg, kind) ==
    [severity |-> sev, message |-> msg, column |-> col, value |-> val,
     explanation |-> expl, suggestions |-> sugg, issue_type |-> kind]

\* the suction-pressure mean and variability checks of one column
SuctionPressureChecks(d, hs, idx) ==
    LET col_data == SeriesOf(d, idx)
        avg_pressure == Mean(col_data)
        level ==
            IF GT(avg_pressure, HighSuctionPressure)
            THEN <<Finding("high", "High suction pressure detected in", hs[idx + 1],
                           avg_pressure,
                           "High suction pressure may indicate system overcharge or restricted airflow",
                           <<"Check refrigerant levels", "Inspect air filters",
                             "Verify ductwork">>,
                           "refrigerant_system")>>
            ELSE IF LT(avg_pressure, LowSuctionPressure)
            THEN <<Finding("medium", "Low suction pressure detected in", hs[idx + 1],
                           avg_pressure,
                           "Low suction pressure may indicate refrigerant leak or expansion valve issues",
                           <<"Check for refrigerant leaks", "Inspect expansion valve",
                             "Verify system charge">>,
                           "refrigerant_system")>>
            ELSE << >>
        variability ==
            IF StdGT(col_data, SuctionPressureStdLimit)
            THEN <<Finding("medium", "High suction pressure variability in", hs[idx + 1],
                           Variance(col_data),
                           "Unstable suction pressure indicates cycling issues or control problems",
                           <<"Check expansion valve operation", "Inspect refrigerant flow",
                             "Verify system controls">>,
                           "control_system")>>
            ELSE << >>
    IN  IF Len(col_data) > 0 THEN level \o variability ELSE << >>

\* the indoor-humidity mean and variability checks of one column
IndoorHumidityChecks(d, hs, idx) ==
    LET col_data == SeriesOf(d, idx)
        avg_humidity == Mean(col_data)
        level ==
            IF GT(avg_humidity, HighIndoorHumidity)
            THEN <<Finding("medium", "High indoor humidity in", hs[idx + 1],
                           avg_humidity,
                           "High indoor humidity promotes mold growth and reduces comfort.",
                           <<"Increase dehumidification", "Check drainage",
                             "Verify ventilation rates", "Inspect ductwork for leaks">>,
                           "humidity_control")>>
            ELSE IF LT(avg_humidity, LowIndoorHumidity)
            THEN <<Finding("low", "Low indoor humidity in", hs[idx + 1],
                           avg_humidity,
                           "Low humidity can cause discomfort and static electricity issues.",
                           <<"Add humidification systems", "Check for excessive ventilation",
                             "Inspect building envelope">>,
                           "humidity_control")>>
            ELSE << >>
        variability ==
            IF StdGT(col_data, HumidityStdLimit)
            THEN <<Finding("low", "Unstable indoor humidity in", hs[idx + 1],
                           Variance(col_data),
                           "Humidity swings indicate poor humidity control or cycling issues.",
                           <<"Check humidity control systems", "Verify proper sizing",
                             "Inspect control sequences">>,
                           "humidity_control")>>
            ELSE << >>
    IN  IF Len(col_data) > 0 THEN level \o variability ELSE << >>

\* Series.diff() without its leading NaN
Diff(xs) == [k \in 1..(Len(xs) - 1) |-> xs[k + 1] - xs[k]]

\* refrigerant migration: more than 10% of the readings follow a drop of over 10
MigrationCheck(d, hs, idx) ==
    LET col_data == SeriesOf(d, idx)
        large_drops == CountBelow(Diff(col_data), 0 - MigrationDrop)
    IN  IF Len(col_data) > 0 /\ 10 * large_drops > Len(col_data)
        THEN <<Finding("low", "Potential refrigerant migration detected in", hs[idx + 1],
                       [num |-> large_drops, den |-> 1],
                       "Pressure drops during off-cycles may indicate refrigerant migration to evaporator.",
                       <<"Check crankcase heater", "Inspect liquid line solenoid",
                         "Verify proper shutdown procedures">>,
                       "refrigerant_migration")>>
        ELSE << >>

\* the level tests applied to min_pressure in place of avg_pressure
LevelCheck_MinBased(xs, hi, f_hi, lo, f_lo) ==
    IF Min(xs) > hi THEN <<[f_hi EXCEPT !.value = Mean(xs)]>>
    ELSE IF Min(xs) < lo THEN <<[f_lo EXCEPT !.value = Mean(xs)]>>
    ELSE << >>

\* mean above `hi` gives the first finding, else mean below `lo` the second
\* (if / elif); `f_hi` and `f_lo` are the findings without their value
LevelCheck(xs, hi, f_hi, lo, f_lo) ==
    IF GT(Mean(xs), hi) THEN <<[f_hi EXCEPT !.value = Mean(xs)]>>
    ELSE IF LT(Mean(xs), lo) THEN <<[f_lo EXCEPT !.value = Mean(xs)]>>
    ELSE << >>

\* std above `limit` gives the finding
SpreadCheck(xs, limit, f) ==
    IF StdGT(xs, limit) THEN <<[f EXCEPT !.value = Variance(xs)]>> ELSE << >>

NoValue == [num |-> 0, den |-> 1]

\* the discharge-pressure mean and instability checks of one column
DischargePressureChecks(d, hs, idx) ==
    LET col_data == SeriesOf(d, idx)
    IN  IF Len(col_data) > 0
        THEN LevelCheck(col_data,
                 HighDischargePressure,
                 Finding("high", "High discharge pressure detected in", hs[idx + 1], NoValue,
                         "High discharge pressure indicates condenser problems, overcharge, or airflow restrictions.",
                         <<"Clean condenser coil", "Check condenser fan operation",
                           "Verify proper airflow", "Check for overcharge">>,
                         "condenser_system"),
                 LowDischargePressure,
                 Finding("medium", "Low discharge pressure detected in", hs[idx + 1], NoValue,
                         "Low discharge pressure may indicate undercharge, compressor wear, or valve problems.",
                         <<"Check refrigerant charge", "Test compressor valves",
                           "Inspect for internal leaks", "Verify compressor operation">>,
                         "compressor_system"))
             \o SpreadCheck(col_data, DischargePressureStdLimit,
                 Finding("medium", "Unstable discharge pressure in", hs[idx + 1], NoValue,
                         "Pressure instability suggests condenser fan cycling or refrigerant flow issues.",
                         <<"Check condenser fan control", "Inspect refrigerant metering",
                           "Verify system capacity">>,
                         "condenser_system"))
        ELSE << >>

\* the suction-temperature mean and stability checks of one column
SuctionTempChecks(d, hs, idx) ==
    LET col_data == SeriesOf(d, idx)
    IN  IF Len(col_data) > 0
        THEN LevelCheck(col_data,
                 HighSuctionTemp,
                 Finding("medium", "High suction temperature in", hs[idx + 1], NoValue,
                         "High suction temperature indicates low refrigerant charge or expansion valve problems.",
                         <<"Check superheat settings", "Verify refrigerant charge",
                           "Inspect expansion valve", "Check for restrictions">>,
                         "refrigerant_system"),
                 LowSuctionTemp,
                 Finding("high", "Low suction temperature risk in", hs[idx + 1], NoValue,
                         "Very low suction temperature risks liquid refrigerant returning to compressor.",
                         <<"Check superheat immediately", "Verify proper airflow",
                           "Inspect expansion valve", "Check for flooding">>,
                         "refrigerant_system"))
             \o SpreadCheck(col_data, SuctionTempStdLimit,
                 Finding("low", "Suction temperature instability in", hs[idx + 1], NoValue,
                         "Temperature fluctuations suggest evaporator loading or refrigerant flow issues.",
                         <<"Check evaporator coil", "Inspect refrigerant distribution",
                           "Verify airflow patterns">>,
                         "evaporator_system"))
        ELSE << >>

\* the supply-air checks of one supply-air or discharge-temperature column
SupplyAirTempChecks(d, hs, idx) ==
    LET col_data == SeriesOf(d, idx)
        temp_spread == Max(col_data) - Min(col_data)
    IN  IF Len(col_data) > 0
        THEN LevelCheck(col_data,
                 HighSupplyTemp,
                 Finding("high", "High discharge temperature in", hs[idx + 1], NoValue,
                         "High discharge temperature indicates compressor stress, poor heat rejection, or overcharge.",
                         <<"Check condenser operation", "Verify proper airflow",
                           "Check refrigerant charge", "Inspect compressor condition">>,
                         "compressor_system"),
                 LowSupplyTemp,
                 Finding("medium", "Very low supply air temperature in", hs[idx + 1], NoValue,
                         "Extremely low supply air temperature may indicate overcooling or control issues.",
                         <<"Check thermostat settings", "Verify cooling load",
                           "Inspect damper operation", "Check for overcooling">>,
                         "control_system"))
             \o (IF temp_spread > SupplyTempSpread
                 THEN <<Finding("medium", "Wide supply air temperature range in", hs[idx + 1],
                                [num |-> temp_spread, den |-> 1],
                                "Large temperature variations suggest capacity control or load matching issues.",
                                <<"Check capacity control", "Verify load calculations",
                                  "Inspect modulation systems", "Review control sequences">>,
                                "capacity_control")>>
                 ELSE << >>)
        ELSE << >>

\* the extreme outdoor temperature checks of one column (two separate ifs)
OutdoorTempChecks(d, hs, idx) ==
    LET outdoor_data == SeriesOf(d, idx)
    IN  IF Len(outdoor_data) > 0
        THEN (IF Max(outdoor_data) > ExtremeOutdoorMax
              THEN <<Finding("medium", "Extreme outdoor temperatures detected", NoColumn,
                             [num |-> Max(outdoor_data), den |-> 1],
                             "High outdoor temperatures stress the cooling system and reduce efficiency.",
                             <<"Monitor system performance closely", "Check condenser operation",
                               "Verify adequate airflow", "Consider load management">>,
                             "environmental_stress")>>
              ELSE << >>)
             \o (IF Min(outdoor_data) < FreezingOutdoorMin
                 THEN <<Finding("low", "Freezing outdoor temperatures detected", NoColumn,
                                [num |-> Min(outdoor_data), den |-> 1],
                                "Freezing conditions may affect heat pump operation or cause freeze protection issues.",
                                <<"Check freeze protection systems", "Verify heat pump defrost cycles",
                                  "Monitor drainage systems">>,
                                "freeze_protection")>>
                 ELSE << >>)
        ELSE << >>

\* col_data.diff().abs() without its leading NaN
AbsDiff(xs) ==
    [k \in 1..(Len(xs) - 1) |->
        IF xs[k + 1] >= xs[k] THEN xs[k + 1] - xs[k] ELSE xs[k] - xs[k + 1]]

\* changes of at least twice the deviation counted as rapid
RapidChanges_Inclusive(changes) ==
    LET v == Variance(changes)
    IN  IF Len(changes) < 2 THEN 0
        ELSE Cardinality({k \in 1..Len(changes) :
                             changes[k] * changes[k] * v.den >= 4 * v.num})

\* (changes > changes.std() * 2).sum(); a NaN deviation compares false
RapidChanges(changes) ==
    LET v == Variance(changes)
    IN  IF Len(changes) < 2 THEN 0
        ELSE Cardinality({k \in 1..Len(changes) :
                             changes[k] * changes[k] * v.den > 4 * v.num})

\* short cycling of one pressure column: over 20% of the readings change
\* by more than twice the deviation of the changes
ShortCyclingCheck(d, hs, idx) ==
    LET col_data == SeriesOf(d, idx)
        rapid_changes == RapidChanges(AbsDiff(col_data))
    IN  IF Len(col_data) > ShortCyclingMinSamples /\ 5 * rapid_changes > Len(col_data)
        THEN <<Finding("medium", "Potential short cycling detected in", hs[idx + 1],
                       [num |-> rapid_changes, den |-> Len(col_data)],
                       "Frequent pressure changes suggest system is cycling on and off too frequently.",
                       <<"Check thermostat differential", "Verify system sizing",
                         "Inspect control systems", "Check for refrigerant issues">>,
                       "short_cycling")>>
        ELSE << >>

\* a decline looked for from 50 samples on
EnoughForDecline_AtLeast(col_data) == Len(col_data) >= DeclineMinSamples

\* len(col_data) > 50
EnoughForDecline(col_data) == Len(col_data) > DeclineMinSamples

\* gradual decline of one discharge-pressure column: the mean of the first
\* len // 2 samples exceeds the mean of the rest by more than 15
PressureDeclineCheck(d, hs, idx) ==
    LET col_data == SeriesOf(d, idx)
        half == Len(col_data) \div 2
        first_half == SubSeq(col_data, 1, half)
        second_half == SubSeq(col_data, half + 1, Len(col_data))
    IN  IF /\ EnoughForDecline(col_data)
           /\ Sum(first_half) * Len(second_half) - Sum(second_half) * Len(first_half)
                 > PressureDecline * Len(first_half) * Len(second_half)
        THEN <<Finding("medium", "Gradual pressure decline detected in", hs[idx + 1],
                       NoValue,
                       "Decreasing discharge pressure over time may indicate compressor wear or refrigerant loss.",
                       <<"Monitor compressor performance", "Check for refrigerant leaks",
                         "Consider compressor evaluation">>,
                       "compressor_degradation")>>
        ELSE << >>

\* evaporator icing risk of one suction-temperature column
IcingCheck(d, hs, idx) ==
    LET col_data == SeriesOf(d, idx)
        freezing_risk == CountBelow(col_data, IcingTemp)
    IN  IF Len(col_data) > 0 /\ freezing_risk > 0
        THEN <<Finding("high", "Evaporator icing risk detected in", hs[idx + 1],
                       [num |-> freezing_risk, den |-> 1],
                       "Suction temperatures below freezing indicate potential evaporator icing.",
                       <<"Check airflow immediately", "Inspect air filters",
                         "Verify proper refrigerant charge", "Check defrost operation">>,
                       "icing_risk")>>
        ELSE << >>


(***************************************************************************)
(* The blocks over two columns.  A binary operation of two Series pairs    *)
(* their entries by row label; dropna keeps the labels of the rows it      *)
(* keeps, and .iloc[:min_len] takes the first min_len entries of each.     *)
(***************************************************************************)
\* the row labels of pd.to_numeric(df.iloc[:, idx], errors='coerce').dropna()
IndexOf(d, idx) ==
    LET col == to_numeric(d[idx + 1])
    IN  SelectSeq([r \in 1..Len(col) |-> r], LAMBDA r : col[r].t # "nan")

ValueAt(d, idx, r) == to_numeric(d[idx + 1])[r].v

\* the labels at which a.iloc[:min_len] and b.iloc[:min_len] both hold a
\* sample, in row order; at every other label the operation gives NaN, which
\* mean() and std() skip
CommonRows(d, a, b) ==
    LET ia == IndexOf(d, a)
        ib == IndexOf(d, b)
        min_len == IF Len(ia) < Len(ib) THEN Len(ia) ELSE Len(ib)
        rb == {ib[k] : k \in 1..min_len}
    IN  SelectSeq(SubSeq(ia, 1, min_len), LAMBDA r : r \in rb)

\* a.iloc[:min_len] - b.iloc[:min_len] without its NaN entries
Differences(d, a, b) ==
    LET rows == CommonRows(d, a, b)
    IN  [k \in 1..Len(rows) |-> ValueAt(d, a, rows[k]) - ValueAt(d, b, rows[k])]

Abs(x) == IF x < 0 THEN 0 - x ELSE x

RECURSIVE GCD(_, _)
GCD(a, b) == IF b = 0 THEN a ELSE GCD(b, a % b)

\* n / dv of two readings: a fraction in lowest terms, and inf, -inf or nan
\* on a zero divisor
Quotient(n, dv) ==
    IF dv = 0
    THEN [kind |-> IF n > 0 THEN "inf" ELSE IF n < 0 THEN "-inf" ELSE "nan",
          num |-> 0, den |-> 1]
    ELSE LET g == GCD(Abs(n), Abs(dv))
             s == IF dv < 0 THEN 0 - 1 ELSE 1
         IN  [kind |-> "fin", num |-> (s * n) \div g, den |-> (s * dv) \div g]

RatAdd(p, q) ==
    LET n == p.num * q.den + q.num * p.den
        dn == p.den * q.den
        g == GCD(Abs(n), dn)
    IN  [kind |-> "fin", num |-> n \div g, den |-> dn \div g]

RECURSIVE RatSum(_)
RatSum(qs) ==
    IF qs = << >> THEN [kind |-> "fin", num |-> 0, den |-> 1]
    ELSE RatAdd(Head(qs), RatSum(Tail(qs)))

\* the first quotient in place of the mean of the quotients
MeanQuotient_First(qs) ==
    LET kept == SelectSeq(qs, LAMBDA q : q.kind # "nan")
    IN  IF kept = << >> THEN [kind |-> "nan", num |-> 0, den |-> 1] ELSE kept[1]

\* Series.mean() of quotients: NaN entries are skipped, inf and -inf together
\* give NaN
MeanQuotient(qs) ==
    LET kept == SelectSeq(qs, LAMBDA q : q.kind # "nan")
        some(kind) == \E k \in 1..Len(kept) : kept[k].kind = kind
        total == RatSum(kept)
    IN  IF kept = << >> \/ (some("inf") /\ some("-inf"))
        THEN [kind |-> "nan", num |-> 0, den |-> 1]
        ELSE IF some("inf") THEN [kind |-> "inf", num |-> 0, den |-> 1]
        ELSE IF some("-inf") THEN [kind |-> "-inf", num |-> 0, den |-> 1]
        ELSE [kind |-> "fin", num |-> total.num, den |-> total.den * Len(kept)]

\* the compression ratio of one suction / discharge pair of columns
CompressionRatioCheck(d, hs, suction_idx, discharge_idx) ==
    LET rows == CommonRows(d, discharge_idx, suction_idx)
        pressure_ratio ==
            [k \in 1..Len(rows) |->
                Quotient(ValueAt(d, discharge_idx, rows[k]),
                         ValueAt(d, suction_idx, rows[k]))]
        avg_ratio == MeanQuotient(pressure_ratio)
    IN  IF Len(SeriesOf(d, suction_idx)) > 0 /\ Len(SeriesOf(d, discharge_idx)) > 0
        THEN IF \/ avg_ratio.kind = "inf"
                \/ /\ avg_ratio.kind = "fin"
                   /\ avg_ratio.num * HighCompressionRatio.den
                         > HighCompressionRatio.num * avg_ratio.den
             THEN <<Finding("high", "High compression ratio detected", NoColumn,
                            avg_ratio,
                            "High compression ratio indicates inefficient operation and potential compressor stress.",
                            <<"Check condenser performance", "Verify refrigerant charge",
                              "Inspect evaporator operation", "Consider load reduction">>,
                            "compressor_efficiency")>>
             ELSE IF \/ avg_ratio.kind = "-inf"
                     \/ /\ avg_ratio.kind = "fin"
                        /\ avg_ratio.num < LowCompressionRatio * avg_ratio.den
             THEN <<Finding("medium", "Low compression ratio detected", NoColumn,
                            avg_ratio,
                            "Low compression ratio may indicate compressor wear or bypass issues.",
                            <<"Test compressor valves", "Check internal leakage",
                              "Verify compressor condition", "Inspect refrigerant circuit">>,
                            "compressor_wear")>>
             ELSE << >>
        ELSE << >>

\* the return / supply temperature differential of one pair of columns
TempDifferentialCheck(d, hs, supply_idx, return_idx) ==
    LET temp_diff == Differences(d, return_idx, supply_idx)
        avg_diff == Mean(temp_diff)
    IN  IF Len(SeriesOf(d, supply_idx)) > 0 /\ Len(SeriesOf(d, return_idx)) > 0
        THEN IF LT(avg_diff, LowTempDifferential)
             THEN <<Finding("medium", "Low temperature differential detected", NoColumn,
                            avg_diff,
                            "Low temperature differential indicates reduced system capacity or airflow issues.",
                            <<"Check airflow rates", "Inspect coil performance",
                              "Verify refrigerant charge", "Check for restrictions">>,
                            "system_capacity")>>
             ELSE IF GT(avg_diff, HighTempDifferential)
             THEN <<Finding("medium", "High temperature differential detected", NoColumn,
                            avg_diff,
                            "High temperature differential may indicate insufficient airflow or oversized equipment.",
                            <<"Check fan operation", "Inspect ductwork",
                              "Verify equipment sizing", "Check filter restrictions">>,
                            "airflow_restriction")>>
             ELSE << >>
        ELSE << >>

\* the estimated subcooling of one discharge temperature / pressure pair:
\* (32 + (avg_press - 14.7) * 0.25) - avg_temp as an exact fraction
Subcooling(temp_data, press_data) ==
    LET nt == Len(temp_data)
        np == Len(press_data)
    IN  [num |-> 1280 * np * nt + 10 * Sum(press_data) * nt - 147 * np * nt
                    - 40 * Sum(temp_data) * np,
         den |-> 40 * np * nt]

SubcoolingCheck(d, hs, temp_idx, press_idx) ==
    LET temp_data == SeriesOf(d, temp_idx)
        press_data == SeriesOf(d, press_idx)
        subcooling == Subcooling(temp_data, press_data)
    IN  IF Len(temp_data) > 0 /\ Len(press_data) > 0
        THEN IF LT(subcooling, LowSubcooling)
             THEN <<Finding("medium", "Low subcooling detected", NoColumn, subcooling,
                            "Low subcooling indicates potential undercharge or heat rejection issues.",
                            <<"Check refrigerant charge", "Inspect condenser performance",
                              "Verify proper airflow">>,
                            "subcooling_low")>>
             ELSE IF GT(subcooling, HighSubcooling)
             THEN <<Finding("low", "High subcooling detected", NoColumn, subcooling,
                            "High subcooling may indicate overcharge or condenser oversizing.",
                            <<"Check for overcharge", "Verify condenser operation",
                              "Consider load conditions">>,
                            "subcooling_high")>>
             ELSE << >>
        ELSE << >>

\* the deviation of one indoor temperature from one cooling setpoint
\* (avg_deviation > 3, elif avg_deviation < -2)
SetpointDeviationCheck(d, hs, setpoint_idx, temp_idx) ==
    LET deviation == Differences(d, temp_idx, setpoint_idx)
        avg_deviation == Mean(deviation)
    IN  IF Len(SeriesOf(d, setpoint_idx)) > 0 /\ Len(SeriesOf(d, temp_idx)) > 0
        THEN IF GT(avg_deviation, OvershootLimit)
             THEN <<Finding("medium", "Consistent temperature overshoot", NoColumn,
                            avg_deviation,
                            "Temperature consistently above setpoint indicates insufficient cooling capacity.",
                            <<"Check system capacity", "Verify refrigerant charge",
                              "Inspect airflow", "Consider load analysis">>,
                            "capacity_insufficient")>>
             ELSE IF LT(avg_deviation, 0 - UndershootLimit)
             THEN <<Finding("low", "Consistent temperature undershoot", NoColumn,
                            avg_deviation,
                            "Temperature consistently below setpoint may indicate oversized equipment or control issues.",
                            <<"Check control settings", "Verify equipment sizing",
                              "Inspect thermostat operation">>,
                            "overcooling")>>
             ELSE << >>
        ELSE << >>

\* liquid line restriction of one suction / discharge pair of columns
LiquidLineCheck(d, hs, suct_idx, disch_idx) ==
    LET pressure_diff == Differences(d, disch_idx, suct_idx)
    IN  IF /\ Len(SeriesOf(d, suct_idx)) > 0 /\ Len(SeriesOf(d, disch_idx)) > 0
           /\ StdGT(pressure_diff, PressureDiffStdLimit)
        THEN <<Finding("medium", "Variable pressure differential suggests flow restrictions",
                       NoColumn, Variance(pressure_diff),
                       "Inconsistent pressure differential may indicate intermittent flow restrictions.",
                       <<"Check liquid line filters", "Inspect expansion valve",
                         "Verify proper refrigerant flow", "Check for moisture/debris">>,
                       "flow_restriction")>>
        ELSE << >>

\* ((changes > 0).astype(int).diff() != 0).sum(): the leading NaN of the
\* second diff() counts as a change
SignChanges(xs) ==
    LET rising == [k \in 1..Len(xs) |-> IF k > 1 /\ xs[k] > xs[k - 1] THEN 1 ELSE 0]
    IN  (IF Len(xs) > 0 THEN 1 ELSE 0)
        + Cardinality({k \in 2..Len(xs) : rising[k] # rising[k - 1]})

\* control hunting of one temperature column: the direction of change flips
\* at more than 30% of the readings
ControlHuntingCheck(d, hs, idx) ==
    LET col_data == SeriesOf(d, idx)
        sign_changes == SignChanges(col_data)
    IN  IF Len(col_data) > HuntingMinSamples /\ 10 * sign_changes > 3 * Len(col_data)
        THEN <<Finding("medium", "Control hunting detected in", hs[idx + 1],
                       [num |-> sign_changes, den |-> Len(col_data)],
                       "Frequent temperature oscillations suggest control system instability.",
                       <<"Adjust control parameters", "Check sensor calibration",
                         "Verify control logic", "Consider PID tuning">>,
                       "control_hunting")>>
        ELSE << >>

\* the findings of `Block(a, b)` for every a of `outer` and, inside, every b
\* of `inner` (nested for loops), given as the table of the pairs' findings
Pairs(outer, inner) ==
    [k \in 1..(Len(outer) * Len(inner)) |->
        <<outer[((k - 1) \div Len(inner)) + 1], inner[((k - 1) % Len(inner)) + 1]>>]

RuleBlocks(d, hs, m) ==
    LET pressure_pairs == Pairs(m.suctionPressures, m.dischargePressures)
        differential_pairs == Pairs(m.supplyAirTemps, m.indoorTemps)
        subcooling_pairs == Pairs(m.dischargeTemps, m.dischargePressures)
        setpoint_pairs == Pairs(m.coolingSetpoints, m.indoorTemps)
        supply_group == m.supplyAirTemps \o m.dischargeTemps
        pressure_groups == m.suctionPressures \o m.dischargePressures
        temp_groups == m.indoorTemps \o m.supplyAirTemps
    IN  Concat([k \in 1..Len(m.suctionPressures) |->
                   SuctionPressureChecks(d, hs, m.suctionPressures[k])])
        \o Concat([k \in 1..Len(m.dischargePressures) |->
                      DischargePressureChecks(d, hs, m.dischargePressures[k])])
        \o Concat([k \in 1..Len(m.suctionTemps) |->
                      SuctionTempChecks(d, hs, m.suctionTemps[k])])
        \o Concat([k \in 1..Len(supply_group) |->
                      SupplyAirTempChecks(d, hs, supply_group[k])])
        \o Concat([k \in 1..Len(pressure_pairs) |->
                      CompressionRatioCheck(d, hs, pressure_pairs[k][1], pressure_pairs[k][2])])
        \o Concat([k \in 1..Len(m.indoorRH) |->
                      IndoorHumidityChecks(d, hs, m.indoorRH[k])])
        \o Concat([k \in 1..Len(m.outdoorAirTemps) |->
                      OutdoorTempChecks(d, hs, m.outdoorAirTemps[k])])
        \o Concat([k \in 1..Len(differential_pairs) |->
                      TempDifferentialCheck(d, hs, differential_pairs[k][1],
                                            differential_pairs[k][2])])
        \o Concat([k \in 1..Len(pressure_groups) |->
                      ShortCyclingCheck(d, hs, pressure_groups[k])])
        \o Concat([k \in 1..Len(subcooling_pairs) |->
                      SubcoolingCheck(d, hs, subcooling_pairs[k][1], subcooling_pairs[k][2])])
        \o Concat([k \in 1..Len(setpoint_pairs) |->
                      SetpointDeviationCheck(d, hs, setpoint_pairs[k][1], setpoint_pairs[k][2])])
        \o Concat([k \in 1..Len(m.suctionPressures) |->
                      MigrationCheck(d, hs, m.suctionPressures[k])])
        \o Concat([k \in 1..Len(pressure_pairs) |->
                      LiquidLineCheck(d, hs, pressure_pairs[k][1], pressure_pairs[k][2])])
        \o Concat([k \in 1..Len(m.dischargePressures) |->
                      PressureDeclineCheck(d, hs, m.dischargePressures[k])])
        \o Concat([k \in 1..Len(m.suctionTemps) |->
                      IcingCheck(d, hs, m.suctionTemps[k])])
        \o Concat([k \in 1..Len(temp_groups) |->
                      ControlHuntingCheck(d, hs, temp_groups[k])])

\* the findings sorted into severity groups (high, medium, low) in place of
\* declaration order
analyze_BySeverity(d, hs, m) ==
    SelectSeq(RuleBlocks(d, hs, m), LAMBDA f : f.severity = "high")
    \o SelectSeq(RuleBlocks(d, hs, m), LAMBDA f : f.severity = "medium")
    \o SelectSeq(RuleBlocks(d, hs, m), LAMBDA f : f.severity = "low")

\* issues = []; the rule blocks append in declaration order; return issues
analyze_hvac_data_enhanced(d, hs, m) == RuleBlocks(d, hs, m)

(***************************************************************************)
(* Header lists handed to the classifier.                                  *)
(***************************************************************************)
SeqsUpTo(S, n) == UNION {[1..k -> S] : k \in 0..n}

\* history of the calls: the first call's argument and result, and whether a
\* call on another header list has been made since
NoCall == << >>

InitIdle ==
    /\ headers = << >>
    /\ df = << >>
    /\ mapping = EmptyMapping
    /\ timeline = << >>
    /\ warned = FALSE
    /\ actions = << >>
    /\ issues = << >>
    /\ comfort = << >>
    /\ seen = NoCall
    /\ pc = "idle"

\* headers = df.columns.tolist()
ReadHeaders(pool, n) ==
    /\ pc = "idle"
    /\ \E hs \in SeqsUpTo(pool, n) : headers' = hs
    /\ pc' = "loaded"
    /\ UNCHANGED <<df, mapping, issues, comfort, seen, timeline, warned, actions>>

\* mapping = parse_headers_enhanced(headers); the call is made once per file
\* and again on the same list
Classify ==
    /\ pc \in {"loaded", "classified"}
    /\ mapping' = parse_headers_enhanced(headers)
    /\ seen' = IF seen = NoCall
               THEN <<[h |-> headers, m |-> mapping', others |-> FALSE]>>
               ELSE IF seen[1].h # headers
               THEN <<[seen[1] EXCEPT !.others = TRUE]>>
               ELSE seen
    /\ pc' = "classified"
    /\ UNCHANGED <<headers, df, issues, comfort, timeline, warned, actions>>

\* the loop over the uploaded files moves on to the next file
NextFile ==
    /\ pc = "classified"
    /\ pc' = "idle"
    /\ UNCHANGED <<headers, df, mapping, issues, comfort, seen, timeline, warned, actions>>

Next ==
    \/ ReadHeaders(HeaderPool, MaxHeaders)
    \/ Classify

Spec == InitIdle /\ [][Next]_vars

NextScenarioA ==
    \/ ReadHeaders(ScenarioAHeaders, MaxScenarioLen)
    \/ Classify

SpecScenarioA == InitIdle /\ [][NextScenarioA]_vars

NextPure ==
    \/ ReadHeaders(PureHeaders, MaxPureLen)
    \/ Classify
    \/ NextFile

SpecPure == InitIdle /\ [][NextPure]_vars

(***************************************************************************)
(* Datasets handed to the rule catalog and the comfort checker.            *)
(***************************************************************************)
RuleHeaderLists ==
    {<<<<"S","u","c","P","r","1">>>>, <<<<"I","n","d","o","o","r"," ","R","H">>>>, <<<<"S","u","c","P","r","1">>, <<"I","n","d","o","o","r"," ","R","H">>>>}

RuleCells ==
    {Num(40), Num(60), Num(200), Num(260), NaN, Str(<<"6","1">>), Str(<<"6","x">>)}

\* df = pd.read_csv(...); headers = df.columns.tolist()
ReadData(lists, cells, rows) ==
    /\ pc = "idle"
    /\ \E hs \in lists, n \in 0..rows :
          /\ headers' = hs
          /\ df' \in [1..Len(hs) -> [1..n -> cells]]
    /\ pc' = "loaded"
    /\ UNCHANGED <<mapping, issues, comfort, seen, timeline, warned, actions>>

\* issues = analyze_hvac_data_enhanced(df, headers, mapping)
Analyze ==
    /\ pc \in {"classified", "timed"}
    /\ issues' = analyze_hvac_data_enhanced(df, headers, mapping)
    /\ pc' = "analyzed"
    /\ UNCHANGED <<headers, df, mapping, comfort, seen, timeline, warned, actions>>

\* comfort_results = check_comfort_conditions(df, headers, mapping)
CheckComfort ==
    /\ pc = "analyzed"
    /\ comfort' = check_comfort_conditions(df, headers, mapping)
    /\ pc' = "checked"
    /\ UNCHANGED <<headers, df, mapping, issues, seen, timeline, warned, actions>>

NextRules ==
    \/ ReadData(RuleHeaderLists, RuleCells, MaxRows)
    \/ Classify
    \/ Analyze
    \/ CheckComfort

SpecRules == InitIdle /\ [][NextRules]_vars

(***************************************************************************)
(* Datasets with indoor-temperature columns, for the comfort checker.      *)
(***************************************************************************)
ComfortTempHeaderLists ==
    {<<<<"I","n","d","o","o","r"," ","T","e","m","p">>>>, <<<<"I","n","d","o","o","r"," ","T","e","m","p">>, <<"S","p","a","c","e"," ","T","e","m","p">>>>}

ComfortTempCells == {Num(69), Num(70), Num(72), Num(75), Num(80), NaN}

NextComfortTemp ==
    \/ ReadData(ComfortTempHeaderLists, ComfortTempCells, MaxRows)
    \/ Classify
    \/ Analyze
    \/ CheckComfort

SpecComfortTemp == InitIdle /\ [][NextComfortTemp]_vars

(***************************************************************************)

(* Datasets with discharge-pressure columns.                               *)
(***************************************************************************)
DischargeHeaderLists ==
    {<<<<"D","i","s","c","h","g","1">>>>, <<<<"D","i","s","c","h","g","1">>, <<"H","e","a","d"," ","P","r","e","s","s","u","r","e">>>>}

DischargeCells == {Num(140), Num(350), Num(400), Num(450), Num(500), NaN}

NextDischarge ==
    \/ ReadData(DischargeHeaderLists, DischargeCells, MaxRows)
    \/ Classify
    \/ Analyze
    \/ CheckComfort

SpecDischarge == InitIdle /\ [][NextDischarge]_vars

(***************************************************************************)

(* Datasets with several roles, for the catalog as a whole.                *)
(***************************************************************************)
CatalogHeaderLists ==
    {<<<<"D","i","s","c","h","g","1">>, <<"S","u","c","P","r","1">>, <<"S","u","c","t","i","o","n"," ","L","i","n","e"," ","P","r","e","s","s","u","r","e">>>>,
     <<<<"I","n","d","o","o","r"," ","R","H">>, <<"I","n","d","o","o","r"," ","T","e","m","p">>, <<"D","i","s","c","h","a","r","g","e"," ","T","e","m","p">>>>}

CatalogCells == {Num(20), Num(450), NaN}

NextCatalog ==
    \/ ReadData(CatalogHeaderLists, CatalogCells, MaxRows)
    \/ Classify
    \/ Analyze
    \/ CheckComfort

SpecCatalog == InitIdle /\ [][NextCatalog]_vars

(***************************************************************************)

(* Logs with date, time and datetime columns, for the timeline.            *)
(***************************************************************************)
TimelineHeaderLists ==
    {<<<<"T","i","m","e","s","t","a","m","p">>>>, <<<<"D","a","t","e">>, <<"T","i","m","e">>>>, <<<<"D","a","t","e">>>>, <<<<"T","i","m","e">>>>,
     <<<<"S","u","c","P","r","1">>>>, <<<<"D","a","t","e">>, <<"S","u","c","P","r","1">>>>, <<<<"T","i","m","e">>, <<"S","u","c","P","r","1">>>>,
     <<<<"T","i","m","e","s","t","a","m","p">>, <<"D","a","t","e">>>>, <<<<"T","i","m","e">>, <<"T","i","m","e","s","t","a","m","p">>>>}

DateCells ==
    {Str(<<"5","-","M","a","y">>), Str(<<" ","3","1","-","M","a","y"," ">>), Str(<<"2","0","2","4","-","0","5","-","3","1">>), Str(<<"g","a","r","b","a","g","e">>), NaN}

TimeCells == {Str(<<"0","8",":","3","0">>), Str(<<"g","a","r","b","a","g","e">>), NaN}

StampCells == {Str(<<"2","0","2","4","-","0","5","-","3","1"," ","0","8",":","3","0">>), Str(<<"2","0","2","4","-","0","5","-","3","1">>), Str(<<"g","a","r","b","a","g","e">>), NaN}

ReadingCells == {Num(40), NaN}

\* the entries a column of the log can hold, by its header
CellsOf(h) ==
    IF h = <<"D","a","t","e">> THEN DateCells
    ELSE IF h = <<"T","i","m","e">> THEN TimeCells
    ELSE IF h = <<"T","i","m","e","s","t","a","m","p">> THEN StampCells
    ELSE ReadingCells

\* df = pd.read_csv(...); headers = df.columns.tolist()
ReadLog(lists, rows) ==
    /\ pc = "idle"
    /\ \E hs \in lists, n \in 0..rows :
          /\ headers' = hs
          /\ df' \in [1..Len(hs) -> [1..n -> DateCells \cup TimeCells \cup StampCells
                                                \cup ReadingCells]]
          /\ \A k \in 1..Len(hs) : \A r \in 1..n : df'[k][r] \in CellsOf(hs[k])
    /\ pc' = "loaded"
    /\ UNCHANGED <<mapping, issues, comfort, seen, timeline, warned, actions>>

\* df = create_datetime_column(df, mapping)
CreateDatetime ==
    /\ pc = "classified"
    /\ timeline' = create_datetime_column(df, mapping).parsed
    /\ warned' = create_datetime_column(df, mapping).warned
    /\ pc' = "timed"
    /\ UNCHANGED <<headers, df, mapping, issues, comfort, seen, actions>>

NextTimeline ==
    \/ ReadLog(TimelineHeaderLists, MaxRows)
    \/ Classify
    \/ CreateDatetime
    \/ Analyze

SpecTimeline == InitIdle /\ [][NextTimeline]_vars

(***************************************************************************)

(* The Recommendation Aggregator: aggregate(findings), the bounded        *)
(* variant.  Findings are stable-sorted by priority and their suggestions  *)
(* emitted once each, in that order, up to the cap.                        *)
(***************************************************************************)
MaxFindings == 4

\* the low-urgency sentinel of a finding without priority
MissingPriority == 99

\* the cap of the bounded variant
ActionCap == 15

\* a finding with its priority set
WithPriority(f, p) ==
    [severity |-> f.severity, message |-> f.message, column |-> f.column,
     value |-> f.value, explanation |-> f.explanation, suggestions |-> f.suggestions,
     issue_type |-> f.issue_type, priority |-> p]

\* the sort key as the sort ignores it: every finding equal
PriorityOf_Ignored(f) == 0

\* the sort key of a finding: its priority, the sentinel when it has none
PriorityOf(f) ==
    IF "priority" \in DOMAIN f THEN f.priority ELSE MissingPriority

\* one step of a stable insertion sort: f goes behind every finding whose
\* key is not larger
InsertByPriority(sorted, f) ==
    LET before == {k \in 1..Len(sorted) : PriorityOf(sorted[k]) <= PriorityOf(f)}
        n == Cardinality(before)
    IN  SubSeq(sorted, 1, n) \o <<f>> \o SubSeq(sorted, n + 1, Len(sorted))

\* findings stable-sorted by priority ascending
RECURSIVE SortByPriority(_)
SortByPriority(fs) ==
    IF fs = << >> THEN << >>
    ELSE InsertByPriority(SortByPriority(SubSeq(fs, 1, Len(fs) - 1)), fs[Len(fs)])

\* the suggestions of one finding as candidate actions, in list order
Candidates(f) ==
    [k \in 1..Len(f.suggestions) |->
        [action |-> f.suggestions[k], issue |-> f.message, severity |-> f.severity]]

\* the test against the text emitted last only
AlreadyEmitted_LastOnly(emitted, text) ==
    emitted # << >> /\ emitted[Len(emitted)].action = text

\* the suggestion text has been emitted (case-sensitive exact match)
AlreadyEmitted(emitted, text) ==
    \E k \in 1..Len(emitted) : emitted[k].action = text

\* the candidates emitted in order, a text once, until the cap is reached
RECURSIVE Emit(_, _)
Emit(emitted, pending) ==
    IF pending = << >> \/ Len(emitted) >= ActionCap THEN emitted
    ELSE IF AlreadyEmitted(emitted, Head(pending).action)
    THEN Emit(emitted, Tail(pending))
    ELSE Emit(Append(emitted,
                     [id |-> Len(emitted) + 1, action |-> Head(pending).action,
                      issue |-> Head(pending).issue, severity |-> Head(pending).severity]),
              Tail(pending))

aggregate(findings) ==
    LET sorted == SortByPriority(findings)
    IN  Emit(<< >>, Concat([k \in 1..Len(sorted) |-> Candidates(sorted[k])]))

\* findings as the rule catalog words them, with and without a priority
FindingPool ==
    {WithPriority(Finding("high", "High discharge pressure detected in", <<"D","i","s","c","h","g","1">>, NoValue, "",
                          <<"Clean condenser coil", "Check condenser fan operation",
                            "Verify proper airflow", "Check for overcharge">>,
                          "condenser_system"), 1),
     WithPriority(Finding("medium", "Low subcooling detected", NoColumn, NoValue, "",
                          <<"Check refrigerant charge", "Inspect condenser performance",
                            "Verify proper airflow">>,
                          "subcooling_low"), 5),
     Finding("low", "High subcooling detected", NoColumn, NoValue, "",
             <<"Check for overcharge", "Verify condenser operation",
               "Consider load conditions">>,
             "subcooling_high"),
     WithPriority(Finding("high", "Evaporator icing risk detected in", <<"S","u","c","t","i","o","n"," ","T","e","m","p">>, NoValue, "",
                          <<"Check airflow immediately", "Inspect air filters",
                            "Verify proper refrigerant charge", "Check defrost operation">>,
                          "icing_risk"), 1),
     WithPriority(Finding("medium", "Control hunting detected in", <<"I","n","d","o","o","r"," ","T","e","m","p">>, NoValue, "",
                          <<"Adjust control parameters", "Check sensor calibration",
                            "Verify control logic", "Consider PID tuning">>,
                          "control_hunting"), 5),
     WithPriority(Finding("medium", "Potential short cycling detected in", <<"S","u","c","P","r","1">>, NoValue, "",
                          <<"Check thermostat differential", "Verify system sizing",
                            "Inspect control systems", "Check for refrigerant issues">>,
                          "short_cycling"), 3)}

\* the findings of a dataset reach the aggregator
ReceiveFindings ==
    /\ pc = "idle"
    /\ issues' \in SeqsUpTo(FindingPool, MaxFindings)
    /\ pc' = "analyzed"
    /\ UNCHANGED <<headers, df, mapping, comfort, seen, timeline, warned, actions>>

\* actions = aggregate(findings)
Aggregate ==
    /\ pc = "analyzed"
    /\ actions' = aggregate(issues)
    /\ pc' = "aggregated"
    /\ UNCHANGED <<headers, df, mapping, issues, comfort, seen, timeline, warned>>

NextAggregate ==
    \/ ReceiveFindings
    \/ Aggregate

SpecAggregate == InitIdle /\ [][NextAggregate]_vars

(***************************************************************************)

(* Datasets for the rules over two columns: pressure pairs, and an indoor   *)
(* temperature with a supply temperature or a cooling setpoint.            *)
(***************************************************************************)
NextPairs ==
    \/ ReadData({<<<<"S","u","c","P","r","1">>, <<"D","i","s","c","h","g","1">>>>,
                 <<<<"S","u","c","P","r","1">>, <<"S","u","c","t","i","o","n"," ","L","i","n","e"," ","P","r","e","s","s","u","r","e">>, <<"D","i","s","c","h","g","1">>>>},
                {Num(100), Num(500), NaN}, MaxRows)
    \/ ReadData({<<<<"I","n","d","o","o","r"," ","T","e","m","p">>, <<"D","i","s","c","h","a","r","g","e"," ","T","e","m","p">>>>, <<<<"I","n","d","o","o","r"," ","T","e","m","p">>, <<"C","o","o","l"," ","S","P">>>>},
                {Num(50), Num(70), Num(90), NaN}, MaxRows)
    \/ Classify
    \/ Analyze
    \/ CheckComfort

SpecPairs == InitIdle /\ [][NextPairs]_vars

(***************************************************************************)

(* Header lists of humidity columns.                                       *)
(***************************************************************************)
NextHumidity ==
    \/ ReadHeaders({<<"O","A","_","R","H">>, <<"O","A"," ","R","e","l"," ","H","u","m">>, <<"O","A"," ","R","H">>, <<"O","u","t","d","o","o","r"," ","R","H">>, <<"I","n","d","o","o","r"," ","R","H">>,
                    <<"D","a","t","e">>, <<"R","u","n"," ","T","i","m","e"," ","R","H">>}, MaxHeaders)
    \/ Classify

SpecHumidity == InitIdle /\ [][NextHumidity]_vars

(***************************************************************************)

(* Datasets with the excluded humidity column and its near namesakes.      *)
(***************************************************************************)
NextSentinel ==
    \/ ReadData({<<<<"1","S","p","r","H","t","S","P">>>>, <<<<" ","1","S","p","r","H","t","S","P">>>>, <<<<"1","s","p","r","h","t","s","p">>>>,
                 <<<<"1","S","p","r","H","t","S","P">>, <<"I","n","d","o","o","r"," ","T","e","m","p">>>>, <<<<"I","n","d","o","o","r"," ","R","H">>, <<"1","S","p","r","H","t","S","P">>>>},
                {Num(50), Num(72), NaN}, MaxRows)
    \/ Classify
    \/ Analyze
    \/ CheckComfort

SpecSentinel == InitIdle /\ [][NextSentinel]_vars

(***************************************************************************)

(* Long logs of one column: a level that changes half-way, a ramp, and     *)
(* readings that alternate between two levels, with or without a leading  *)
(* blank entry.                                                            *)
(***************************************************************************)
MaxSamples == 52

TrendLevels == {100, 115, 116}

TrendSlopes == {0 - 1, 0, 1}

Step(n, a, b) == [k \in 1..n |-> Num(IF k <= n \div 2 THEN a ELSE b)]

Ramp(n, a, s) == [k \in 1..n |-> Num(a + (k - 1) * s)]

Zigzag(n, a, b) == [k \in 1..n |-> Num(IF k % 2 = 1 THEN a ELSE b)]

\* df = pd.read_csv(...); headers = df.columns.tolist()
ReadTrend(lists, rows) ==
    /\ pc = "idle"
    /\ \E hs \in lists, n \in 0..rows, gap \in BOOLEAN :
          \E col \in {Step(n, a, b) : a, b \in TrendLevels}
                     \cup {Ramp(n, a, s) : a \in TrendLevels, s \in TrendSlopes}
                     \cup {Zigzag(n, a, b) : a, b \in TrendLevels} :
              /\ headers' = hs
              /\ df' = [c \in 1..Len(hs) |-> IF gap THEN <<NaN>> \o col ELSE col]
    /\ pc' = "loaded"
    /\ UNCHANGED <<mapping, issues, comfort, seen, timeline, warned, actions>>

NextTrend ==
    \/ ReadTrend({<<<<"D","i","s","c","h","g","1">>>>, <<<<"S","u","c","P","r","1">>>>, <<<<"I","n","d","o","o","r"," ","T","e","m","p">>>>}, MaxSamples)
    \/ Classify
    \/ Analyze

SpecTrend == InitIdle /\ [][NextTrend]_vars

(***************************************************************************)

(* Properties of parse_headers_enhanced.                                   *)
(***************************************************************************)
\* the places (role, position in the role's list; 0 for a single slot) that hold i
Holders(m, i) ==
    UNION {{<<r, k>> : k \in {j \in 1..Len(m[r]) : m[r][j] = i}} : r \in ListRoles}
    \cup {<<r, 0>> : r \in {s \in SingleRoles : m[s] = i}}

RolesOfIndex(m, i) == {hd[1] : hd \in Holders(m, i)}

StoredIndices(m) ==
    UNION {{m[r][k] : k \in 1..Len(m[r])} : r \in ListRoles}
    \cup {m[s] : s \in {t \in SingleRoles : m[t] # None}}

AllEmpty(m) ==
    /\ \A r \in ListRoles : m[r] = << >>
    /\ \A s \in SingleRoles : m[s] = None

\* the header matches the keyword test of no group at all
NoGroup(k) ==
    ~(\/ k.datetime \/ k.date \/ k.time \/ k.rh \/ k.indoorTemps \/ k.suctionTemps
      \/ k.supplyAirTemps \/ k.dischargeTemps \/ k.outdoorAirTemps
      \/ k.suctionPressures \/ k.dischargePressures \/ k.coolingSetpoints
      \/ k.heatingSetpoints)

\* the header matches the keyword test of a group tested before suction pressure
EarlierThanSuctionPressure(k) ==
    \/ k.datetime \/ k.date \/ k.time \/ k.rh \/ k.indoorTemps \/ k.suctionTemps
    \/ k.supplyAirTemps \/ k.dischargeTemps \/ k.outdoorAirTemps

\* C1: after parse_headers_enhanced, every stored index is a valid position of
\* the header list and is held by exactly one place: one role, one list entry.
OneRolePerIndex ==
    pc = "classified" =>
        \A i \in StoredIndices(mapping) :
            /\ i \in 0..(Len(headers) - 1)
            /\ Cardinality(Holders(mapping, i)) = 1

\* a header that passes the keyword tests of two groups has been classified
\* next to another classified header
OneRolePerIndexWitness ==
    /\ pc = "classified"
    /\ Cardinality(StoredIndices(mapping)) >= 2
    /\ \E n \in 1..Len(headers) :
          /\ kw[headers[n]].suctionTemps
          /\ kw[headers[n]].suctionPressures
          /\ RolesOfIndex(mapping, n - 1) = {"suctionTemps"}

\* C2: a header whose trimmed lower-cased text contains "suction" and
\* "pressure" and matches no group tested earlier is in suctionPressures and
\* in no other role.
SuctionPressureClassified ==
    pc = "classified" =>
        \A n \in 1..Len(headers) :
            (/\ Contains(header_lower[headers[n]], <<"s","u","c","t","i","o","n">>)
             /\ Contains(header_lower[headers[n]], <<"p","r","e","s","s","u","r","e">>)
             /\ ~EarlierThanSuctionPressure(kw[headers[n]]))
            => RolesOfIndex(mapping, n - 1) = {"suctionPressures"}

\* a list holding such a header, and one with both words that an earlier
\* group takes
SuctionPressureWitness ==
    /\ pc = "classified"
    /\ \E n, p \in 1..Len(headers) :
          /\ Contains(header_lower[headers[n]], <<"s","u","c","t","i","o","n">>)
          /\ Contains(header_lower[headers[n]], <<"p","r","e","s","s","u","r","e">>)
          /\ ~EarlierThanSuctionPressure(kw[headers[n]])
          /\ headers[n] # Strip(headers[n])
          /\ (n - 1) \in StoredIndices(mapping)
          /\ Contains(header_lower[headers[p]], <<"s","u","c","t","i","o","n">>)
          /\ Contains(header_lower[headers[p]], <<"p","r","e","s","s","u","r","e">>)
          /\ EarlierThanSuctionPressure(kw[headers[p]])

ScenarioA == <<<<"D","a","t","e">>, <<"T","i","m","e">>, <<"S","u","c","P","r","1">>, <<"D","i","s","c","h","g","1">>>>

\* C3: the list ["Date","Time","SucPr1","Dischg1"] gives date 0, time 1,
\* suctionPressures [2], dischargePressures [3], nothing else.
ScenarioAMapping ==
    (pc = "classified" /\ headers = ScenarioA) =>
        /\ mapping.date = 0
        /\ mapping.time = 1
        /\ mapping.datetime = None
        /\ mapping.suctionPressures = <<2>>
        /\ mapping.dischargePressures = <<3>>
        /\ \A r \in ListRoles \ {"suctionPressures", "dischargePressures"} :
              mapping[r] = << >>

ScenarioAWitness ==
    /\ pc = "classified"
    /\ headers = ScenarioA
    /\ StoredIndices(mapping) = {0, 1, 2, 3}

FirstDatetimeKept ==
    pc = "classified" =>
        \A n \in 1..Len(headers) :
            (/\ kw[headers[n]].datetime
             /\ \A j \in 1..(n - 1) : ~kw[headers[j]].datetime)
            => mapping.datetime = n - 1

\* C7: a header that reaches the date (time) group after the date (time)
\* slot was taken by an earlier header is assigned to no role.
LaterDateTimeIgnored ==
    pc = "classified" =>
        \A n \in 1..Len(headers) :
            LET k == kw[headers[n]]
            IN  /\ (/\ ~k.datetime /\ k.date
                    /\ mapping.date # None /\ mapping.date < n - 1)
                   => RolesOfIndex(mapping, n - 1) = {}
                /\ (/\ ~k.datetime /\ ~k.date /\ k.time
                    /\ mapping.time # None /\ mapping.time < n - 1)
                   => RolesOfIndex(mapping, n - 1) = {}

\* C8: the empty header list gives the all-empty map, and a header that
\* matches no group is left out of every role.
UnmatchedDropped ==
    pc = "classified" =>
        /\ (headers = << >> => AllEmpty(mapping))
        /\ \A n \in 1..Len(headers) :
              NoGroup(kw[headers[n]]) => RolesOfIndex(mapping, n - 1) = {}

\* an unmatched header stands between two classified ones
UnmatchedDroppedWitness ==
    /\ pc = "classified"
    /\ \E n \in 1..Len(headers) :
          /\ NoGroup(kw[headers[n]])
          /\ (n - 2) \in StoredIndices(mapping)
          /\ n \in StoredIndices(mapping)
          /\ (n - 1) \notin StoredIndices(mapping)

(***************************************************************************)
(* Properties of the rule catalog and the comfort checker.                 *)
(***************************************************************************)
\* a string that reads as a whole number
IsNumeral(str) ==
    LET ds == IF Len(str) > 0 /\ str[1] = "-" THEN Tail(str) ELSE str
    IN  Len(ds) > 0 /\ \A k \in 1..Len(ds) : IsDigit(ds[k])

Parseable(c) == c.t = "num" \/ (c.t = "str" /\ IsNumeral(c.s))

\* the values of the parseable cells of a column, in row order
RECURSIVE ParseableValues(_)
ParseableValues(col) ==
    IF col = << >> THEN << >>
    ELSE (IF Parseable(Head(col))
          THEN <<IF Head(col).t = "num" THEN Head(col).v ELSE ParseString(Head(col).s).v>>
          ELSE << >>) \o ParseableValues(Tail(col))

\* the columns (0-based) of the loaded dataset, and its row count
Columns == 0..(Len(df) - 1)

RowCount == IF df = << >> THEN 0 ELSE Len(df[1])

Ran == pc \in {"analyzed", "checked"}

IssuesOf(msg, idx) ==
    {k \in 1..Len(issues) : issues[k].message = msg /\ issues[k].column = headers[idx + 1]}

ComfortOf(type, idx) ==
    {k \in 1..Len(comfort) : comfort[k].type = type /\ comfort[k].column = headers[idx + 1]}

InRole(role, idx) == \E k \in 1..Len(mapping[role]) : mapping[role][k] = idx

\* C4: for a suction-pressure column with a non-empty series, 'Low suction
\* pressure' (medium, with suggestions) is emitted iff the mean is < 50 and
\* 'High suction pressure' (high) iff the mean is > 200; never both, and
\* neither at a mean of exactly 50 or 200.
SuctionMeanRule ==
    Ran =>
        \A idx \in Columns :
            LET xs == ParseableValues(df[idx + 1])
                low == IssuesOf("Low suction pressure detected in", idx)
                high == IssuesOf("High suction pressure detected in", idx)
            IN  (InRole("suctionPressures", idx) /\ Len(xs) > 0) =>
                    /\ (low # {}) <=> (Sum(xs) < 50 * Len(xs))
                    /\ (high # {}) <=> (Sum(xs) > 200 * Len(xs))
                    /\ Cardinality(low) + Cardinality(high) <= 1
                    /\ \A k \in low : /\ issues[k].severity = "medium"
                                      /\ issues[k].suggestions # << >>
                    /\ \A k \in high : issues[k].severity = "high"

\* a two-sample suction column whose mean is exactly 50 passed the rule
\* without a finding
SuctionMeanWitness ==
    /\ Ran
    /\ \E idx \in Columns :
          LET xs == ParseableValues(df[idx + 1])
          IN  /\ InRole("suctionPressures", idx)
              /\ Len(xs) = 2
              /\ xs[1] < 50
              /\ Sum(xs) = 50 * Len(xs)
              /\ IssuesOf("Low suction pressure detected in", idx) = {}

\* C9: the series a rule or the comfort checker works on holds exactly the
\* parseable cells of its column in row order: no longer than the row count,
\* no number standing in for an unparseable cell, statistics over the
\* parseable cells only.
CoercionDropsUnparseable ==
    pc = "checked" =>
        \A idx \in Columns :
            LET xs == ParseableValues(df[idx + 1])
            IN  /\ SeriesOf(df, idx) = xs
                /\ Len(SeriesOf(df, idx)) <= RowCount
                /\ InRole("indoorRH", idx) =>
                      /\ (ComfortOf("Indoor Relative Humidity", idx) # {}) <=> (Len(xs) > 0)
                      /\ \A k \in ComfortOf("Indoor Relative Humidity", idx) :
                            /\ comfort[k].average = [num |-> Sum(xs), den |-> Len(xs)]
                            /\ comfort[k].percent_over.den = Len(xs)
                /\ InRole("suctionPressures", idx) =>
                      \A k \in IssuesOf("Low suction pressure detected in", idx)
                               \cup IssuesOf("High suction pressure detected in", idx) :
                          issues[k].value = [num |-> Sum(xs), den |-> Len(xs)]

\* a humidity column with a text cell and a numeric cell gave a result over
\* the one numeric cell
CoercionWitness ==
    /\ pc = "checked"
    /\ \E idx \in Columns :
          /\ InRole("indoorRH", idx)
          /\ RowCount = 2
          /\ \E r \in 1..RowCount :
                df[idx + 1][r].t = "str" /\ ~IsNumeral(df[idx + 1][r].s)
          /\ \E k \in ComfortOf("Indoor Relative Humidity", idx) :
                comfort[k].average.den = 1

TemperatureComfortRule ==
    pc = "checked" =>
        \A idx \in Columns :
            LET xs == ParseableValues(df[idx + 1])
                outside == Cardinality({j \in 1..Len(xs) : xs[j] < 70 \/ xs[j] > 75})
                at(v) == Cardinality({j \in 1..Len(xs) : xs[j] = v})
                res == ComfortOf("Indoor Temperature", idx)
            IN  (InRole("indoorTemps", idx) /\ Len(xs) > 0) =>
                    /\ Cardinality(res) = 1
                    /\ \A k \in res :
                          LET p == comfort[k].percent_outside
                          IN  /\ p.den > 0
                              /\ p.num * Len(xs) = 100 * outside * p.den
                              /\ comfort[k].compliant <=> (p.num = 0)
                              /\ comfort[k].compliant <=>
                                    (\A j \in 1..Len(xs) : 70 <= xs[j] /\ xs[j] <= 75)
                              /\ at(72) = Len(xs) => (p.num = 0 /\ comfort[k].compliant)
                              /\ (at(80) = at(72) /\ at(80) + at(72) = Len(xs)) =>
                                    (p.num = 50 * p.den /\ ~comfort[k].compliant)

\* a column with one sample at 80 and one at 72 was reported 50 percent
\* outside, and a column with samples at the bounds 70 and 75 was compliant
TemperatureComfortWitness ==
    /\ pc = "checked"
    /\ \E idx \in Columns :
          /\ InRole("indoorTemps", idx)
          /\ df[idx + 1] = <<Num(80), Num(72)>>
          /\ \E k \in ComfortOf("Indoor Temperature", idx) :
                comfort[k].percent_outside.num = 50 * comfort[k].percent_outside.den
    /\ \E idx \in Columns :
          /\ InRole("indoorTemps", idx)
          /\ df[idx + 1] = <<Num(70), Num(75)>>
          /\ \E k \in ComfortOf("Indoor Temperature", idx) : comfort[k].compliant

\* C12: for a discharge-pressure column whose series mean is strictly above
\* 400 the findings hold exactly one finding of that column with severity
\* high and issue_type condenser_system, it is the 'High discharge pressure'
\* finding and suggests "Clean condenser coil", and no 'Low discharge
\* pressure' finding is emitted for the column.
HighDischargeRule ==
    Ran =>
        \A idx \in Columns :
            LET xs == ParseableValues(df[idx + 1])
                total == Sum(xs)
                hits == {k \in 1..Len(issues) :
                            /\ issues[k].column = headers[idx + 1]
                            /\ issues[k].severity = "high"
                            /\ issues[k].issue_type = "condenser_system"}
            IN  (InRole("dischargePressures", idx) /\ Len(xs) > 0
                 /\ total > 400 * Len(xs)) =>
                    /\ Cardinality(hits) = 1
                    /\ \A k \in hits :
                          /\ issues[k].message = "High discharge pressure detected in"
                          /\ \E j \in 1..Len(issues[k].suggestions) :
                                issues[k].suggestions[j] = "Clean condenser coil"
                    /\ IssuesOf("Low discharge pressure detected in", idx) = {}

\* a column of 350 and 500 (mean 425, unstable) got its one high finding next
\* to a medium instability finding of the same column
HighDischargeWitness ==
    /\ Ran
    /\ \E idx \in Columns :
          /\ InRole("dischargePressures", idx)
          /\ df[idx + 1] = <<Num(350), Num(500)>>
          /\ IssuesOf("High discharge pressure detected in", idx) # {}
          /\ IssuesOf("Unstable discharge pressure in", idx) # {}

\* the columns (0-based) named by a finding or a comfort result
ColumnsNamed(col) == {idx \in Columns : headers[idx + 1] = col}

\* some column of the role has a non-empty coerced series
SomeSeries(role) ==
    \E k \in 1..Len(mapping[role]) : ParseableValues(df[mapping[role][k] + 1]) # << >>

\* the roles whose series a finding over two columns needs, by message
RequiredRoles(msg) ==
    IF msg \in {"High compression ratio detected", "Low compression ratio detected",
                "Variable pressure differential suggests flow restrictions"}
    THEN {"suctionPressures", "dischargePressures"}
    ELSE IF msg \in {"Low temperature differential detected",
                     "High temperature differential detected"}
    THEN {"supplyAirTemps", "indoorTemps"}
    ELSE IF msg \in {"Low subcooling detected", "High subcooling detected"}
    THEN {"dischargeTemps", "dischargePressures"}
    ELSE IF msg \in {"Consistent temperature overshoot", "Consistent temperature undershoot"}
    THEN {"coolingSetpoints", "indoorTemps"}
    ELSE {}

\* C14: a dataset with zero rows, or whose classified columns all coerce to
\* empty series, gives no findings and no comfort results; and every finding
\* or comfort result that is present rests on non-empty series only (a rule
\* is skipped when a series it needs is empty).
EmptySeriesSkipped ==
    pc = "checked" =>
        /\ (RowCount = 0 \/ \A idx \in Columns : ParseableValues(df[idx + 1]) = << >>) =>
              (issues = << >> /\ comfort = << >>)
        /\ \A k \in 1..Len(issues) :
              /\ issues[k].column # NoColumn =>
                    \A idx \in ColumnsNamed(issues[k].column) :
                        ParseableValues(df[idx + 1]) # << >>
              /\ \A role \in RequiredRoles(issues[k].message) : SomeSeries(role)
        /\ \A k \in 1..Len(comfort) :
              \A idx \in ColumnsNamed(comfort[k].column) :
                  ParseableValues(df[idx + 1]) # << >>

\* a dataset of two rows whose columns were classified and hold no number
\* came out without findings and without comfort results, and so did a
\* dataset in which only the indoor-temperature column is empty
EmptySeriesWitness ==
    /\ pc = "checked"
    /\ RowCount = 2
    /\ mapping.indoorTemps # << >>
    /\ mapping.indoorRH # << >>
    /\ \A idx \in Columns : ParseableValues(df[idx + 1]) = << >>
    /\ issues = << >>
    /\ comfort = << >>

\* the rule blocks in the order of their declaration in the source: the
\* messages a block emits and the role lists its loop runs over (none for a
\* block over pairs of columns, whose findings name no column)
DeclaredBlocks ==
    <<[messages |-> {"High suction pressure detected in", "Low suction pressure detected in",
                     "High suction pressure variability in"},
       roles |-> <<"suctionPressures">>],
      [messages |-> {"High discharge pressure detected in",
                     "Low discharge pressure detected in", "Unstable discharge pressure in"},
       roles |-> <<"dischargePressures">>],
      [messages |-> {"High suction temperature in", "Low suction temperature risk in",
                     "Suction temperature instability in"},
       roles |-> <<"suctionTemps">>],
      [messages |-> {"High discharge temperature in", "Very low supply air temperature in",
                     "Wide supply air temperature range in"},
       roles |-> <<"supplyAirTemps", "dischargeTemps">>],
      [messages |-> {"High compression ratio detected", "Low compression ratio detected"},
       roles |-> << >>],
      [messages |-> {"High indoor humidity in", "Low indoor humidity in",
                     "Unstable indoor humidity in"},
       roles |-> <<"indoorRH">>],
      [messages |-> {"Extreme outdoor temperatures detected",
                     "Freezing outdoor temperatures detected"},
       roles |-> <<"outdoorAirTemps">>],
      [messages |-> {"Low temperature differential detected",
                     "High temperature differential detected"},
       roles |-> << >>],
      [messages |-> {"Potential short cycling detected in"},
       roles |-> <<"suctionPressures", "dischargePressures">>],
      [messages |-> {"Low subcooling detected", "High subcooling detected"},
       roles |-> << >>],
      [messages |-> {"Consistent temperature overshoot", "Consistent temperature undershoot"},
       roles |-> << >>],
      [messages |-> {"Potential refrigerant migration detected in"},
       roles |-> <<"suctionPressures">>],
      [messages |-> {"Variable pressure differential suggests flow restrictions"},
       roles |-> << >>],
      [messages |-> {"Gradual pressure decline detected in"},
       roles |-> <<"dischargePressures">>],
      [messages |-> {"Evaporator icing risk detected in"},
       roles |-> <<"suctionTemps">>],
      [messages |-> {"Control hunting detected in"},
       roles |-> <<"indoorTemps", "supplyAirTemps">>]>>

BlockOf(f) == CHOOSE b \in 1..Len(DeclaredBlocks) : f.message \in DeclaredBlocks[b].messages

\* the place of a finding's column in the role lists its block runs over
\* (0 when the finding names no column)
PlaceInBlock(f) ==
    LET roles == DeclaredBlocks[BlockOf(f)].roles
        list == Concat([k \in 1..Len(roles) |-> mapping[roles[k]]])
        places == {k \in 1..Len(list) : headers[list[k] + 1] = f.column}
    IN  IF f.column = NoColumn \/ places = {} THEN 0
        ELSE CHOOSE k \in places : \A j \in places : k <= j

\* C20: the findings are in rule-declaration order, and within a block in the
\* order of the columns in the role lists the block runs over; the list is
\* not reordered by severity.
DeclarationOrder ==
    Ran =>
        \A i, j \in 1..Len(issues) :
            i < j =>
                /\ \E b \in 1..Len(DeclaredBlocks) : issues[i].message \in DeclaredBlocks[b].messages
                /\ \/ BlockOf(issues[i]) < BlockOf(issues[j])
                   \/ /\ BlockOf(issues[i]) = BlockOf(issues[j])
                      /\ PlaceInBlock(issues[i]) <= PlaceInBlock(issues[j])

\* a medium finding of the suction block stands before the high findings of
\* the discharge and compression-ratio blocks, and the suction block lists
\* its two columns in role-list order
DeclarationOrderWitness ==
    /\ Ran
    /\ \E i, j \in 1..Len(issues) :
          /\ i < j
          /\ issues[i].severity = "medium" /\ issues[i].message = "Low suction pressure detected in"
          /\ issues[j].severity = "high" /\ issues[j].message = "High discharge pressure detected in"
          /\ \E k \in (j + 1)..Len(issues) :
                issues[k].severity = "high" /\ issues[k].message = "High compression ratio detected"
    /\ \E i, j \in 1..Len(issues) :
          /\ i < j
          /\ BlockOf(issues[i]) = 1 /\ BlockOf(issues[j]) = 1
          /\ PlaceInBlock(issues[i]) = 1 /\ PlaceInBlock(issues[j]) = 2

\* the k-th entry of the synthetic hourly timeline that starts 2024-01-01 00:00
Hourly(k) == Timestamp(2024, 1, 1 + ((k - 1) \div 24), (k - 1) % 24, 0)

IsSynthetic(ts) == \A k \in 1..Len(ts) : ts[k] = Hourly(k)

\* the timestamp an entry of a date column stands for after stripping and
\* day-month normalisation (NaT when it stands for none)
DateOf(c) == ParseDateTime(convert_date(Strip(astype_str(c))))

DateOnly == mapping.datetime = None /\ mapping.date # None /\ mapping.time = None

TimeOnly == mapping.datetime = None /\ mapping.date = None /\ mapping.time # None

\* C13: with a date column, no datetime and no time column, and every date
\* entry unparseable, the timeline is the synthetic hourly sequence from
\* 2024-01-01 00:00, one entry per row and none of them null.
UnparseableDatesSynthetic ==
    (pc = "timed" /\ DateOnly
     /\ \A r \in 1..RowCount : DateOf(df[mapping.date + 1][r]) = NaT) =>
        /\ Len(timeline) = RowCount
        /\ IsSynthetic(timeline)
        /\ \A r \in 1..Len(timeline) : timeline[r] # NaT

\* a date column of two unparseable entries got 00:00 and 01:00 of 2024-01-01
UnparseableDatesWitness ==
    /\ pc = "timed"
    /\ DateOnly
    /\ RowCount = 2
    /\ \A r \in 1..RowCount : df[mapping.date + 1][r] = Str(<<"g","a","r","b","a","g","e">>)
    /\ timeline = <<Timestamp(2024, 1, 1, 0, 0), Timestamp(2024, 1, 1, 1, 0)>>

\* C15: in every branch of create_datetime_column (datetime column, date and
\* time columns, date column alone, no time source, exception fallback) the
\* timeline has exactly one entry per row, the entry of row r coming from row
\* r (or being the r-th hour of the synthetic sequence), and the step leaves
\* the headers and every other column as they were.
TimelinePerRow ==
    /\ [](pc = "timed" =>
            /\ Len(timeline) = RowCount
            /\ mapping.datetime # None =>
                  \A r \in 1..RowCount :
                      timeline[r] = ParseCell(df[mapping.datetime + 1][r])
            /\ (mapping.datetime = None /\ mapping.date # None /\ mapping.time # None) =>
                  \A r \in 1..RowCount :
                      LET date_str == convert_date(Strip(astype_str(df[mapping.date + 1][r])))
                          time_str == Strip(astype_str(df[mapping.time + 1][r]))
                      IN  timeline[r] = IF date_str = NoString THEN NaT
                                        ELSE ParseDateTime(date_str \o <<" ">> \o time_str)
            /\ (mapping.datetime = None /\ (mapping.date = None \/ warned)) =>
                  IsSynthetic(timeline))
    /\ [][pc' = "timed" => (df' = df /\ headers' = headers)]_vars

\* a two-row log with a date and a time column whose second row does not
\* parse kept both rows, the first parsed to 2024-05-31 08:30 and the second
\* NaT
TimelinePerRowWitness ==
    /\ pc = "timed"
    /\ mapping.date # None /\ mapping.time # None
    /\ RowCount = 2
    /\ df[mapping.date + 1][1] = Str(<<" ","3","1","-","M","a","y"," ">>)
    /\ timeline = <<Timestamp(2024, 5, 31, 8, 30), NaT>>
    /\ ~warned

\* the statement of C16: with a time column and neither a date nor a
\* datetime column, the timeline is the parse of the time column's entries,
\* not the synthetic sequence.
TimeOnlyParsed ==
    (pc = "timed" /\ TimeOnly) =>
        \A r \in 1..RowCount :
            timeline[r] = ParseDateTime(Strip(astype_str(df[mapping.time + 1][r])))

\* the statement of C17: with a date column, no datetime and no time column,
\* and at least one parseable date entry, every row's timestamp is the parse
\* of its date entry after day-month normalisation, not the synthetic
\* sequence.
DateOnlyParsed ==
    (pc = "timed" /\ DateOnly
     /\ \E r \in 1..RowCount : DateOf(df[mapping.date + 1][r]) # NaT) =>
        \A r \in 1..RowCount : timeline[r] = DateOf(df[mapping.date + 1][r])

\* the priority a finding is ranked by, a missing one counting as 99
RankedPriority(k) ==
    IF "priority" \in DOMAIN issues[k] THEN issues[k].priority ELSE 99

\* the findings (positions in the received list) that suggest a text
FindingsWith(text) ==
    {k \in 1..Len(issues) :
        \E j \in 1..Len(issues[k].suggestions) : issues[k].suggestions[j] = text}

\* finding k comes before finding j in priority order (ties in received order)
Outranks(k, j) ==
    RankedPriority(k) < RankedPriority(j) \/ (RankedPriority(k) = RankedPriority(j) /\ k <= j)

\* the first finding, in priority order, that suggests the text
FirstWith(text) ==
    CHOOSE k \in FindingsWith(text) : \A j \in FindingsWith(text) : Outranks(k, j)

\* the place of the text in the suggestions of the first finding that has it
PlaceOf(text) ==
    LET s == issues[FirstWith(text)].suggestions
    IN  CHOOSE j \in 1..Len(s) : s[j] = text /\ \A i \in 1..(j - 1) : s[i] # text

AllSuggestions ==
    UNION {{issues[k].suggestions[j] : j \in 1..Len(issues[k].suggestions)} :
              k \in 1..Len(issues)}

\* C18: the action list never holds the same suggestion text twice; a text
\* suggested by several findings appears once, numbered by its position,
\* with the severity of the first finding in priority order that suggests it
\* and at the place of that first occurrence; below the cap no suggested
\* text is missing.
ActionsDeduplicated ==
    pc = "aggregated" =>
        /\ \A a, b \in 1..Len(actions) :
              a # b => actions[a].action # actions[b].action
        /\ \A a \in 1..Len(actions) :
              /\ actions[a].id = a
              /\ FindingsWith(actions[a].action) # {}
              /\ actions[a].severity = issues[FirstWith(actions[a].action)].severity
        /\ \A a, b \in 1..Len(actions) :
              a < b =>
                 LET fa == FirstWith(actions[a].action)
                     fb == FirstWith(actions[b].action)
                 IN  IF fa = fb THEN PlaceOf(actions[a].action) < PlaceOf(actions[b].action)
                     ELSE Outranks(fa, fb)
        /\ Len(actions) < 15 =>
              \A text \in AllSuggestions : \E a \in 1..Len(actions) : actions[a].action = text

\* "Verify proper airflow", suggested by a priority-5 finding received first
\* and by a priority-1 finding received later, stands once in the list, with
\* the severity of the priority-1 finding
ActionsDeduplicatedWitness ==
    /\ pc = "aggregated"
    /\ \E k, j \in FindingsWith("Verify proper airflow") :
          k < j /\ RankedPriority(k) = 5 /\ RankedPriority(j) = 1
    /\ \E a \in 1..Len(actions) :
          /\ actions[a].action = "Verify proper airflow"
          /\ actions[a].severity = "high"
          /\ a = 3

\* C19: every action that comes from a priority-1 finding stands before every
\* action that comes from priority-5 findings only, whatever the order the
\* findings were received in; the actions follow the findings stable-sorted
\* by ascending priority, a finding without priority ranking as 99.
PriorityOrder ==
    pc = "aggregated" =>
        /\ \A a, b \in 1..Len(actions) :
              (/\ \E k \in FindingsWith(actions[a].action) : RankedPriority(k) = 1
               /\ \A k \in FindingsWith(actions[b].action) : RankedPriority(k) = 5) =>
                 a < b
        /\ \A a, b \in 1..Len(actions) :
              a < b =>
                 LET fa == FirstWith(actions[a].action)
                     fb == FirstWith(actions[b].action)
                 IN  /\ RankedPriority(fa) <= RankedPriority(fb)
                     /\ RankedPriority(fa) = RankedPriority(fb) => fa <= fb

\* a priority-5 finding was received before a priority-1 finding and a
\* finding without priority before both; the list starts with the
\* priority-1 finding's first suggestion and ends with one of the finding
\* without priority
PriorityOrderWitness ==
    /\ pc = "aggregated"
    /\ Len(issues) = 3
    /\ RankedPriority(1) = 99 /\ RankedPriority(2) = 5 /\ RankedPriority(3) = 1
    /\ actions # << >>
    /\ FirstWith(actions[1].action) = 3
    /\ FirstWith(actions[Len(actions)].action) = 1

\* the number of findings with the message
CountOf(msg) == Cardinality({k \in 1..Len(issues) : issues[k].message = msg})

\* the parseable samples of column idx (0-based), in row order
SamplesOf(idx) == ParseableValues(df[idx + 1])

ShorterOf(a, b) ==
    IF Len(SamplesOf(a)) < Len(SamplesOf(b)) THEN Len(SamplesOf(a)) ELSE Len(SamplesOf(b))

\* the sum of (k-th sample of a) - (k-th sample of b) over the first N
\* samples of each, N the length of the shorter series
PositionalDifference(a, b) ==
    Sum([k \in 1..ShorterOf(a, b) |-> SamplesOf(a)[k] - SamplesOf(b)[k]])

\* the mean of (k-th sample of a) / (k-th sample of b) over the same samples
PositionalRatio(a, b) ==
    MeanQuotient([k \in 1..ShorterOf(a, b) |-> Quotient(SamplesOf(a)[k], SamplesOf(b)[k])])

OnePair(role_a, role_b) == Len(mapping[role_a]) = 1 /\ Len(mapping[role_b]) = 1

\* the statement of C21: the sample-by-sample rules over two columns combine
\* the k-th retained sample of one column with the k-th retained sample of
\* the other, k = 1..N, also when the unparseable cells of the two columns
\* lie in different rows; so each finding follows the mean over those pairs.
PairedByPosition ==
    Ran =>
        /\ OnePair("supplyAirTemps", "indoorTemps") =>
              LET ret == mapping.indoorTemps[1]
                  sup == mapping.supplyAirTemps[1]
                  n == ShorterOf(ret, sup)
              IN  /\ CountOf("Low temperature differential detected") = 1
                        <=> (n > 0 /\ PositionalDifference(ret, sup) < 15 * n)
                  /\ CountOf("High temperature differential detected") = 1
                        <=> (n > 0 /\ PositionalDifference(ret, sup) > 25 * n)
        /\ OnePair("coolingSetpoints", "indoorTemps") =>
              LET tmp == mapping.indoorTemps[1]
                  sp == mapping.coolingSetpoints[1]
                  n == ShorterOf(tmp, sp)
              IN  /\ CountOf("Consistent temperature overshoot") = 1
                        <=> (n > 0 /\ PositionalDifference(tmp, sp) > 3 * n)
                  /\ CountOf("Consistent temperature undershoot") = 1
                        <=> (n > 0 /\ PositionalDifference(tmp, sp) < (0 - 2) * n)
        /\ OnePair("suctionPressures", "dischargePressures") =>
              LET dis == mapping.dischargePressures[1]
                  suc == mapping.suctionPressures[1]
                  q == PositionalRatio(dis, suc)
              IN  /\ CountOf("High compression ratio detected") = 1
                        <=> (q.kind = "fin" /\ 2 * q.num > 9 * q.den)
                  /\ CountOf("Low compression ratio detected") = 1
                        <=> (q.kind = "fin" /\ q.num < 2 * q.den)

\* the statement of C22 as given: the ratio compared with the thresholds is
\* (mean of the discharge series) / (mean of the suction series).
RatioOfMeans ==
    (Ran /\ OnePair("suctionPressures", "dischargePressures")) =>
        LET dis == SamplesOf(mapping.dischargePressures[1])
            suc == SamplesOf(mapping.suctionPressures[1])
            \* mean(dis) / mean(suc) against t = tn / td, for positive sums
            above(tn, td) == td * Sum(dis) * Len(suc) > tn * Sum(suc) * Len(dis)
            below(tn, td) == td * Sum(dis) * Len(suc) < tn * Sum(suc) * Len(dis)
        IN  (Len(dis) > 0 /\ Len(suc) > 0) =>
                /\ CountOf("High compression ratio detected") = 1 <=> above(9, 2)
                /\ CountOf("Low compression ratio detected") = 1 <=> below(2, 1)

\* the rows whose cell of column idx is parseable, in row order
RowsKept(idx) ==
    SelectSeq([r \in 1..RowCount |-> r], LAMBDA r : Parseable(df[idx + 1][r]))

\* the rows at which the first N retained samples of both columns lie, N the
\* length of the shorter series
RowsInBoth(a, b) ==
    LET n == ShorterOf(a, b)
    IN  SelectSeq(SubSeq(RowsKept(a), 1, n),
                  LAMBDA r : \E k \in 1..n : RowsKept(b)[k] = r)

CellValue(c) == IF c.t = "num" THEN c.v ELSE ParseString(c.s).v

\* the mean of the row-by-row quotients discharge / suction of a pair whose
\* suction readings are not zero
RowRatio(suc, dis) ==
    LET rows == RowsInBoth(dis, suc)
        total == RatSum([k \in 1..Len(rows) |->
                            Quotient(CellValue(df[dis + 1][rows[k]]),
                                     CellValue(df[suc + 1][rows[k]]))])
    IN  IF rows = << >> THEN [kind |-> "nan", num |-> 0, den |-> 1]
        ELSE [kind |-> "fin", num |-> total.num, den |-> total.den * Len(rows)]

NonZero(idx) == \A k \in 1..Len(SamplesOf(idx)) : SamplesOf(idx)[k] # 0

PressurePairs ==
    {p \in (0..(Len(df) - 1)) \X (0..(Len(df) - 1)) :
        InRole("suctionPressures", p[1]) /\ InRole("dischargePressures", p[2])}

\* C22 (amended): the ratio compared with the thresholds is the mean of the
\* row-by-row quotients discharge / suction over the rows at which both
\* truncated series hold a sample; there is one 'High compression ratio'
\* finding (high) for every pair with that mean > 4.5, one 'Low compression
\* ratio' finding (medium) for every pair with it < 2.0, and none for a pair
\* whose mean lies in [2.0, 4.5] or that has no such row (suction readings
\* other than zero).
RatioOfRowQuotients ==
    (Ran /\ \A p \in PressurePairs : NonZero(p[1])) =>
        /\ CountOf("High compression ratio detected") =
              Cardinality({p \in PressurePairs :
                  LET q == RowRatio(p[1], p[2])
                  IN  q.kind = "fin" /\ 2 * q.num > 9 * q.den})
        /\ CountOf("Low compression ratio detected") =
              Cardinality({p \in PressurePairs :
                  LET q == RowRatio(p[1], p[2])
                  IN  q.kind = "fin" /\ q.num < 2 * q.den})
        /\ \A k \in 1..Len(issues) :
              /\ issues[k].message = "High compression ratio detected" =>
                    issues[k].severity = "high"
              /\ issues[k].message = "Low compression ratio detected" =>
                    issues[k].severity = "medium"

\* suction 100 and 500 under discharge 500 and 500: the quotients 5 and 1
\* have mean 3, so no ratio finding, though the ratio of the means is 1.67
RatioOfRowQuotientsWitness ==
    /\ Ran
    /\ OnePair("suctionPressures", "dischargePressures")
    /\ df[mapping.suctionPressures[1] + 1] = <<Num(100), Num(500)>>
    /\ df[mapping.dischargePressures[1] + 1] = <<Num(500), Num(500)>>
    /\ CountOf("High compression ratio detected") = 0
    /\ CountOf("Low compression ratio detected") = 0

\* C23: with a datetime column the timeline comes from that column alone,
\* whatever a date or a time column holds, and row by row: a row whose entry
\* does not parse is NaT, every other row has the timestamp of its own
\* entry, no warning is shown, and a timeline with an unparseable row is not
\* the synthetic sequence.
DatetimeColumnPerRow ==
    (pc = "timed" /\ mapping.datetime # None) =>
        /\ ~warned
        /\ Len(timeline) = RowCount
        /\ \A r \in 1..RowCount :
              LET c == df[mapping.datetime + 1][r]
              IN  IF c.t = "str" /\ ParseDateTime(c.s) # NaT
                  THEN timeline[r] = ParseDateTime(c.s)
                  ELSE timeline[r] = NaT
        /\ (\E r \in 1..RowCount : timeline[r] = NaT) => ~IsSynthetic(timeline)

\* a log with a datetime column and a date column: the first row's stamp
\* does not parse and is NaT although its date entry is a good date, the
\* second row keeps its own stamp
DatetimeColumnPerRowWitness ==
    /\ pc = "timed"
    /\ mapping.datetime # None /\ mapping.date # None
    /\ RowCount = 2
    /\ df[mapping.datetime + 1] = <<Str(<<"g","a","r","b","a","g","e">>), Str(<<"2","0","2","4","-","0","5","-","3","1"," ","0","8",":","3","0">>)>>
    /\ df[mapping.date + 1][1] = Str(<<"2","0","2","4","-","0","5","-","3","1">>)
    /\ timeline = <<NaT, Timestamp(2024, 5, 31, 8, 30)>>

\* the timestamp a row of a date and time pair of columns stands for
PairStampOf(r) ==
    LET date_str == convert_date(Strip(astype_str(df[mapping.date + 1][r])))
        time_str == Strip(astype_str(df[mapping.time + 1][r]))
    IN  IF date_str = NoString THEN NaT
        ELSE ParseDateTime(date_str \o <<" ">> \o time_str)

\* the statement of C24: when no row of the datetime column, or of the date
\* and time pair, can be parsed, the timeline is the synthetic hourly
\* sequence and holds no NaT.
WholeColumnFailureSynthetic ==
    (/\ pc = "timed"
     /\ RowCount > 0
     /\ \/ /\ mapping.datetime # None
           /\ \A r \in 1..RowCount : ParseCell(df[mapping.datetime + 1][r]) = NaT
        \/ /\ mapping.datetime = None /\ mapping.date # None /\ mapping.time # None
           /\ \A r \in 1..RowCount : PairStampOf(r) = NaT) =>
        /\ IsSynthetic(timeline)
        /\ \A r \in 1..Len(timeline) : timeline[r] # NaT

\* the header of column idx (0-based), stripped and in lower case
CleanHeader(idx) == Lower(Strip(headers[idx + 1]))

\* the statement of C25: a header with a relative-humidity keyword and no
\* keyword of the date/time groups is in outdoorRH when it contains
\* "outdoor", "outside" or "oa", in indoorRH otherwise, and never in both.
OutdoorRHBySubKeyword ==
    pc = "classified" =>
        \A idx \in 0..(Len(headers) - 1) :
            LET hl == CleanHeader(idx)
            IN  (/\ AnyIn({<<"r","e","l"," ","h","u","m">>, <<"r","e","l","."," ","h","u","m">>, <<"r","e","l","a","t","i","v","e"," ","h","u","m","i","d","i","t","y">>, <<"r","h">>}, hl)
                 /\ ~AnyIn({<<"t","i","m","e","s","t","a","m","p">>, <<"d","a","t","e","t","i","m","e">>, <<"d","a","t","e">>, <<"t","i","m","e">>}, hl)) =>
                    IF AnyIn({<<"o","u","t","d","o","o","r">>, <<"o","u","t","s","i","d","e">>, <<"o","a">>}, hl)
                    THEN InRole("outdoorRH", idx) /\ ~InRole("indoorRH", idx)
                    ELSE InRole("indoorRH", idx) /\ ~InRole("outdoorRH", idx)

\* C26: an indoor-RH column whose header is exactly "1SprHtSP" has no
\* humidity result whatever it holds; any other indoor-RH column (also one
\* named " 1SprHtSP" or "1sprhtsp") with a non-empty series has exactly one;
\* and every indoor-temperature column with a non-empty series has its one
\* temperature result next to the excluded column.
SentinelSkipped ==
    pc = "checked" =>
        /\ \A idx \in 0..(Len(headers) - 1) :
              InRole("indoorRH", idx) =>
                 Cardinality(ComfortOf("Indoor Relative Humidity", idx)) =
                    (IF headers[idx + 1] = <<"1","S","p","r","H","t","S","P">> THEN 0
                     ELSE IF SamplesOf(idx) # << >> THEN 1 ELSE 0)
        /\ \A idx \in 0..(Len(headers) - 1) :
              InRole("indoorTemps", idx) =>
                 Cardinality(ComfortOf("Indoor Temperature", idx)) =
                    (IF SamplesOf(idx) # << >> THEN 1 ELSE 0)

\* the column "1SprHtSP" holds readings and is in indoorRH, the only result
\* is the temperature result of the column next to it
SentinelSkippedWitness ==
    /\ pc = "checked"
    /\ headers = <<<<"1","S","p","r","H","t","S","P">>, <<"I","n","d","o","o","r"," ","T","e","m","p">>>>
    /\ InRole("indoorRH", 0)
    /\ df = <<<<Num(72), Num(50)>>, <<Num(72), Num(72)>>>>
    /\ Len(comfort) = 1
    /\ comfort[1].type = "Indoor Temperature"

\* the sum of the samples lo..hi of column idx
SumOver(idx, lo, hi) == Sum(SubSeq(SamplesOf(idx), lo, hi))

\* every message a rule block of the catalog can emit
CatalogMessages == UNION {DeclaredBlocks[b].messages : b \in 1..Len(DeclaredBlocks)}

\* C27: for a discharge-pressure column of n samples 'Gradual pressure
\* decline' is emitted iff n > 50 and the mean of the first n \div 2 samples
\* exceeds the mean of the others by more than 15 (never at n = 50); short
\* cycling is never reported for a column of 10 samples or fewer and control
\* hunting never for one of 20 or fewer; a short column yields no finding
\* other than those of the catalog's rules.
TrendRulesNeedSamples ==
    pc = "analyzed" =>
        /\ \A idx \in 0..(Len(headers) - 1) :
              LET n == Len(SamplesOf(idx))
                  h == n \div 2
              IN  /\ InRole("dischargePressures", idx) =>
                        (Cardinality(IssuesOf("Gradual pressure decline detected in", idx)) = 1
                            <=> /\ n > 50
                                /\ SumOver(idx, 1, h) * (n - h) - SumOver(idx, h + 1, n) * h
                                      > 15 * h * (n - h))
                  /\ Cardinality(IssuesOf("Gradual pressure decline detected in", idx)) <= 1
                  /\ n <= 10 => IssuesOf("Potential short cycling detected in", idx) = {}
                  /\ n <= 20 => IssuesOf("Control hunting detected in", idx) = {}
        /\ \A k \in 1..Len(issues) : issues[k].message \in CatalogMessages

\* 51 discharge readings, 25 at 116 and then 26 at 100: the decline of 16 is
\* reported
TrendRulesNeedSamplesWitness ==
    /\ pc = "analyzed"
    /\ headers = <<<<"D","i","s","c","h","g","1">>>>
    /\ df = <<Step(51, 116, 100)>>
    /\ IssuesOf("Gradual pressure decline detected in", 0) # {}

\* C28: every finding has a severity of high, medium or low, a message, an
\* explanation, an issue type and at least one suggestion, none of them
\* empty; two findings of the same rule branch (the same message, on
\* whatever columns) have the same severity, explanation, suggestions and
\* issue type.
FindingsWellFormed ==
    Ran =>
        /\ \A k \in 1..Len(issues) :
              /\ issues[k].severity \in {"high", "medium", "low"}
              /\ issues[k].message # ""
              /\ issues[k].explanation # ""
              /\ issues[k].issue_type # ""
              /\ issues[k].suggestions # << >>
              /\ \A j \in 1..Len(issues[k].suggestions) : issues[k].suggestions[j] # ""
        /\ \A k, j \in 1..Len(issues) :
              issues[k].message = issues[j].message =>
                 /\ issues[k].severity = issues[j].severity
                 /\ issues[k].explanation = issues[j].explanation
                 /\ issues[k].suggestions = issues[j].suggestions
                 /\ issues[k].issue_type = issues[j].issue_type

\* two suction columns with a low mean: the same branch reported for each
FindingsWellFormedWitness ==
    /\ Ran
    /\ \E k, j \in 1..Len(issues) :
          /\ k # j
          /\ issues[k].message = "Low suction pressure detected in"
          /\ issues[j].message = "Low suction pressure detected in"
          /\ issues[k].column # issues[j].column
    /\ \E k \in 1..Len(issues) : issues[k].severity = "high"

\* C29: an indoor-RH column that the comfort check finds compliant (no
\* sample above 60) has no 'High indoor humidity' finding: its mean cannot
\* exceed 60.
CompliantNotHumid ==
    pc = "checked" =>
        \A idx \in 0..(Len(headers) - 1) :
            (/\ InRole("indoorRH", idx)
             /\ \/ \E k \in ComfortOf("Indoor Relative Humidity", idx) : comfort[k].compliant
                \/ /\ SamplesOf(idx) # << >>
                   /\ \A j \in 1..Len(SamplesOf(idx)) : SamplesOf(idx)[j] <= 60) =>
                IssuesOf("High indoor humidity in", idx) = {}

\* a compliant column whose samples are all exactly 60, with no finding
CompliantNotHumidWitness ==
    /\ pc = "checked"
    /\ \E idx \in 0..(Len(headers) - 1) :
          /\ InRole("indoorRH", idx)
          /\ df[idx + 1] = <<Num(60), Num(60)>>
          /\ \E k \in ComfortOf("Indoor Relative Humidity", idx) : comfort[k].compliant
          /\ IssuesOf("High indoor humidity in", idx) = {}

\* the converse fails: samples 40 and 61 are not compliant, and their mean
\* of 50.5 gives no 'High indoor humidity' finding
NotHumidNotCompliant ==
    /\ pc = "checked"
    /\ \E idx \in 0..(Len(headers) - 1) :
          /\ InRole("indoorRH", idx)
          /\ df[idx + 1] = <<Num(40), Str(<<"6","1">>)>>
          /\ \E k \in ComfortOf("Indoor Relative Humidity", idx) : ~comfort[k].compliant
          /\ IssuesOf("High indoor humidity in", idx) = {}

\* C30: a pressure column of more than 10 samples that rises or falls by the
\* same nonzero step from each sample to the next is reported as 'Potential
\* short cycling', once; a column of equal samples is never reported.
RampReportedAsCycling ==
    pc = "analyzed" =>
        \A idx \in 0..(Len(headers) - 1) :
            (InRole("suctionPressures", idx) \/ InRole("dischargePressures", idx)) =>
                LET xs == SamplesOf(idx)
                    n == Len(xs)
                IN  /\ (/\ n > 10
                        /\ xs[2] # xs[1]
                        /\ \A k \in 2..n : xs[k] - xs[k - 1] = xs[2] - xs[1]) =>
                           Cardinality(IssuesOf("Potential short cycling detected in", idx)) = 1
                    /\ (\A k \in 2..n : xs[k] = xs[k - 1]) =>
                           IssuesOf("Potential short cycling detected in", idx) = {}

\* 11 suction readings 100, 101, ..., 110 after a blank entry, reported
RampReportedAsCyclingWitness ==
    /\ pc = "analyzed"
    /\ headers = <<<<"S","u","c","P","r","1">>>>
    /\ df = <<<<NaN>> \o Ramp(11, 100, 1)>>
    /\ IssuesOf("Potential short cycling detected in", 0) # {}

====
